---- MODULE Spec2Model ----
(***************************************************************************)
(* Matching and scoring core of the ATS resume pipeline: competency        *)
(* normalisation, evidence matching, weighted scoring with partial credit  *)
(* and the skill-only penalty, capability-graph edge weights and their     *)
(* adaptation from recruiter feedback, and the application preview cache.  *)
(*                                                                         *)
(* Numbers.  Similarities, thresholds and points are carried as integers   *)
(* in hundredths (0.35 is 35); competency weights and importance           *)
(* multipliers in tenths (0.8 is 8, 1.5 is 15).  A coverage is an integer  *)
(* number of 1/CovOne parts, CovOne being a common multiple of the three   *)
(* thresholds and of ten, so that best_similarity / match_threshold and    *)
(* the 0.7 penalty are exact.  match_strength is a fraction in lowest      *)
(* terms <<numerator, denominator>>.                                       *)
(***************************************************************************)
EXTENDS Integers, Sequences, FiniteSets, TLC

VARIABLES
    candidate_graph,   \* scoring: the nodes of the candidate's graph
    jd_competencies,   \* scoring: [required, optional], lists of entries
    matching_result,   \* scoring: the MatchResult, or NoResult before the run
    skill_node,        \* profile edits: the skill whose years of experience grow
    embedding_model,   \* profile edits: similarity the embedding backend yields per text
    score_log,         \* profile edits: <<years, match_strength>> of each scoring run
    profile_skill,     \* feedback: proficiency and years of the demonstrated skill
    map_similarity,    \* feedback: similarity of the skill with the job's competency
    edge_weight,       \* feedback: weight of each edge of the candidate's graph
    feedback_log,      \* feedback: the feedback events since the graph was built
    feedback_worker,   \* feedback: the handlers of concurrently submitted feedback
    profile_updated_at,  \* preview cache: updated_at of each candidate profile
    job_updated_at,      \* preview cache: updated_at of each job description
    application_preview, \* preview cache: the ApplicationPreview row of each pair
    preview_request,     \* preview cache: the call of _get_or_compute_preview each worker serves
    embedding_available, \* repeated runs: whether the embedding backend can be loaded
    match_history,       \* repeated runs: what each call of build-and-score returned
    candidate_profile,   \* graph construction: the profile the graph is built from
    knowledge_graph,     \* graph construction: [nodes, edges], or NoGraph before the build
    application_status,  \* applications: the status of each application made
    application_read,    \* applications: what the last read of an application returned
    generation_request,  \* resume generation: the loop of each generation request
    llm_usage,           \* LLM quota: the count of each (model, key, date) row
    usage_worker,        \* LLM quota: the call of _claim_usage_slot each worker makes
    auth_context,        \* routing: what useAuth() returns
    location,            \* routing: the path the router is at
    rendered,            \* routing: the element rendered for the path
    applications_page,   \* recruiter's applications page: the component's state
    feedback_requests,   \* recruiter's applications page: the requests it has issued
    browse_jobs,         \* job browser: the component's state
    modal_fetches,       \* job browser: the runs of the apply modal's effect
    local_storage,       \* auth service: the browser's local storage
    auth_call,           \* auth service: the login under way and the last answers
    generate_resume,     \* resume page: the component's state
    generate_requests    \* resume page: the requests of each Generate click

scoreVars == <<candidate_graph, jd_competencies, matching_result>>
yearsVars == <<skill_node, embedding_model, score_log>>

feedbackVars == <<profile_skill, map_similarity, edge_weight, feedback_log,
                  feedback_worker>>

cacheVars == <<profile_updated_at, job_updated_at, application_preview,
               preview_request>>

runVars == <<embedding_available, match_history>>

graphVars == <<candidate_profile, knowledge_graph>>

statusVars == <<application_status, application_read>>

generationVars == <<generation_request>>

usageVars == <<llm_usage, usage_worker>>

apiVars == <<statusVars, generationVars, usageVars>>

routeVars == <<auth_context, location, rendered>>

pageVars == <<applications_page, feedback_requests>>

browseVars == <<browse_jobs, modal_fetches>>

storageVars == <<local_storage, auth_call>>

resumePageVars == <<generate_resume, generate_requests>>

uiVars == <<routeVars, pageVars, browseVars, storageVars, resumePageVars>>

vars == <<scoreVars, yearsVars, feedbackVars, cacheVars, runVars, graphVars,
          apiVars, uiVars>>

\* the variables an operation of one part leaves alone
OutsideScoring == <<yearsVars, feedbackVars, cacheVars, runVars, graphVars,
    apiVars, uiVars>>
OutsideYears == <<feedbackVars, cacheVars, runVars, graphVars,
    apiVars, uiVars>>
OutsideFeedback == <<scoreVars, yearsVars, cacheVars, runVars, graphVars,
    apiVars, uiVars>>
OutsideCache == <<scoreVars, yearsVars, feedbackVars, runVars, graphVars,
    apiVars, uiVars>>

----------------------------------------------------------------------------
(* Arithmetic helpers *)

Min(a, b) == IF a <= b THEN a ELSE b

RECURSIVE Gcd(_, _)
Gcd(a, b) == IF b = 0 THEN a ELSE Gcd(b, a % b)

\* n / d in lowest terms; d > 0
Fraction(n, d) == LET g == Gcd(n, d) IN <<n \div g, d \div g>>

Take(s, n) == SubSeq(s, 1, Min(n, Len(s)))

----------------------------------------------------------------------------
(* Competency normalisation *)

\* A competency name is a sequence of one-letter strings.  The keyword
\* lists are not part of the source: a short lower-case keyword stands for
\* each list.
ML_KEYWORDS == {<<"m", "l">>}
PLATFORM_KEYWORDS == {<<"k">>}
PROCESS_KEYWORDS == {<<"p">>}

LowerCase == [c \in {"M", "L", "K", "P"} |->
                 CASE c = "M" -> "m" [] c = "L" -> "l"
                   [] c = "K" -> "k" [] c = "P" -> "p"]

\* name.lower()
Lower(name) ==
    [i \in 1..Len(name) |->
        IF name[i] \in DOMAIN LowerCase THEN LowerCase[name[i]] ELSE name[i]]

\* keyword in text
Contains(text, keyword) ==
    \E i \in 0..(Len(text) - Len(keyword)) :
        SubSeq(text, i + 1, i + Len(keyword)) = keyword

\* any(keyword in name for keyword in keywords): the name is not lowered
AnyKeywordInName(name, keywords) ==
    \E keyword \in keywords : Contains(name, keyword)

\* any(keyword in name.lower() for keyword in keywords)
AnyKeyword(name, keywords) ==
    \E keyword \in keywords : Contains(Lower(name), keyword)

\* entry.update({...}): the three keys are set, every other key is kept
Enrich(entry, category, weight, threshold) ==
    [category |-> category, weight |-> weight, match_threshold |-> threshold]
        @@ entry

\* a classification that reads the category a previous call left on the entry
NormalizeEntryFromCategory(entry) ==
    IF "category" \in DOMAIN entry
    THEN Enrich(entry, "GENERAL", 8, 35)
    ELSE IF AnyKeyword(entry.name, ML_KEYWORDS)
    THEN Enrich(entry, "ML_AI", 10, 35)
    ELSE IF AnyKeyword(entry.name, PLATFORM_KEYWORDS)
    THEN Enrich(entry, "PLATFORM", 9, 38)
    ELSE IF AnyKeyword(entry.name, PROCESS_KEYWORDS)
    THEN Enrich(entry, "PROCESS", 5, 30)
    ELSE Enrich(entry, "GENERAL", 8, 35)

\* a classification that looks for the keywords in the name as written
NormalizeEntryCaseSensitive(entry) ==
    IF AnyKeywordInName(entry.name, ML_KEYWORDS)
    THEN Enrich(entry, "ML_AI", 10, 35)
    ELSE IF AnyKeywordInName(entry.name, PLATFORM_KEYWORDS)
    THEN Enrich(entry, "PLATFORM", 9, 38)
    ELSE IF AnyKeywordInName(entry.name, PROCESS_KEYWORDS)
    THEN Enrich(entry, "PROCESS", 5, 30)
    ELSE Enrich(entry, "GENERAL", 8, 35)

NormalizeEntry(entry) ==
    IF AnyKeyword(entry.name, ML_KEYWORDS)
    THEN Enrich(entry, "ML_AI", 10, 35)
    ELSE IF AnyKeyword(entry.name, PLATFORM_KEYWORDS)
    THEN Enrich(entry, "PLATFORM", 9, 38)
    ELSE IF AnyKeyword(entry.name, PROCESS_KEYWORDS)
    THEN Enrich(entry, "PROCESS", 5, 30)
    ELSE Enrich(entry, "GENERAL", 8, 35)

normalize_competencies(entries) ==
    [i \in 1..Len(entries) |-> NormalizeEntry(entries[i])]

\* One coverage unit: coverage 1.0 is CovOne parts.
CovOne == 35 * 38 * 30

----------------------------------------------------------------------------
(* Evidence matching *)

MinSimilarity == 25
TopEvidence == 5
StoredEvidence == 3

\* `candidate_nodes` filtered by `similarity > 0.25`, in node order
RECURSIVE CollectEvidence(_, _, _)
CollectEvidence(competency, graph, n) ==
    IF n = 0 THEN <<>>
    ELSE LET rest == CollectEvidence(competency, graph, n - 1)
         IN  IF graph[n].has_embedding /\ competency.sims[n] > MinSimilarity
             THEN Append(rest, [node_id |-> n,
                                node_type |-> graph[n].type,
                                similarity |-> competency.sims[n]])
             ELSE rest

\* sorted(..., key=similarity, reverse=True): stable, equal keys keep their order
RECURSIVE InsertDesc(_, _)
InsertDesc(s, e) ==
    IF s = <<>> THEN <<e>>
    ELSE IF Head(s).similarity >= e.similarity
         THEN <<Head(s)>> \o InsertDesc(Tail(s), e)
         ELSE <<e>> \o s

RECURSIVE SortedDesc(_)
SortedDesc(s) ==
    IF s = <<>> THEN <<>>
    ELSE InsertDesc(SortedDesc(SubSeq(s, 1, Len(s) - 1)), s[Len(s)])

\* the first five collected, in node order
find_evidence_unsorted(competency, graph) ==
    Take(CollectEvidence(competency, graph, Len(graph)), TopEvidence)

find_evidence_matches(competency, graph) ==
    Take(SortedDesc(CollectEvidence(competency, graph, Len(graph))), TopEvidence)

----------------------------------------------------------------------------
(* Scoring: step 2 (partial credit) and step 3 (skill-only penalty) *)

RECURSIVE MaxSimilarity(_)
MaxSimilarity(evidence) ==
    IF Len(evidence) = 1 THEN evidence[1].similarity
    ELSE LET m == MaxSimilarity(Tail(evidence))
         IN  IF evidence[1].similarity >= m THEN evidence[1].similarity ELSE m

Importance(comp) == IF comp.importance = "required" THEN 15 ELSE 10

EmptyTotals == [matched |-> <<>>, missing |-> <<>>,
                total_possible |-> 0, total_earned |-> 0]

\* a loop body whose full match needs a similarity above the threshold
ScoreCompetencyAboveThreshold(acc, comp, graph) ==
    LET evidence_matches == find_evidence_matches(comp, graph)
    IN  IF evidence_matches = <<>>
        THEN [acc EXCEPT !.missing = Append(@, comp)]
        ELSE
          LET best_similarity == MaxSimilarity(evidence_matches)
              full == best_similarity > comp.match_threshold
              coverage == IF full THEN CovOne
                          ELSE (best_similarity * CovOne) \div comp.match_threshold
              points_possible == comp.weight * Importance(comp)
              points_earned == points_possible * coverage
          IN  [acc EXCEPT
                 !.total_possible = @ + points_possible,
                 !.total_earned = @ + points_earned,
                 !.matched = Append(@, [competency |-> comp,
                                        status |-> IF full THEN "matched" ELSE "partial",
                                        similarity |-> best_similarity,
                                        coverage |-> coverage,
                                        coverage_penalty |-> 10,
                                        evidence |-> Take(evidence_matches, StoredEvidence)])]

\* The body of the loop over the competencies.  A competency without evidence
\* is appended to `missing` and the iteration ends (`continue`) before the
\* totals are touched.
ScoreCompetency(acc, comp, graph) ==
    LET evidence_matches == find_evidence_matches(comp, graph)
    IN  IF evidence_matches = <<>>
        THEN [acc EXCEPT !.missing = Append(@, comp)]
        ELSE
          LET best_similarity == MaxSimilarity(evidence_matches)
              full == best_similarity >= comp.match_threshold
              coverage == IF full THEN CovOne
                          ELSE (best_similarity * CovOne) \div comp.match_threshold
              points_possible == comp.weight * Importance(comp)
              points_earned == points_possible * coverage
          IN  [acc EXCEPT
                 !.total_possible = @ + points_possible,
                 !.total_earned = @ + points_earned,
                 !.matched = Append(@, [competency |-> comp,
                                        status |-> IF full THEN "matched" ELSE "partial",
                                        similarity |-> best_similarity,
                                        coverage |-> coverage,
                                        coverage_penalty |-> 10,
                                        evidence |-> Take(evidence_matches, StoredEvidence)])]

RECURSIVE ScoreAll(_, _, _)
ScoreAll(acc, comps, graph) ==
    IF comps = <<>> THEN acc
    ELSE ScoreAll(ScoreCompetency(acc, Head(comps), graph), Tail(comps), graph)

skill_only_coverage_penalty == 7

AllSkills(evidence) == \A i \in 1..Len(evidence) : evidence[i].node_type = "Skill"

\* Step 3 for one entry of `matched`: the penalty and the recomputed points
PenalizeMatch(match) ==
    IF AllSkills(match.evidence)
    THEN [match EXCEPT !.coverage = (@ * skill_only_coverage_penalty) \div 10,
                       !.coverage_penalty = skill_only_coverage_penalty]
    ELSE match

MatchPoints(match) ==
    match.competency.weight * Importance(match.competency) * match.coverage

RECURSIVE SumPoints(_)
SumPoints(matched) ==
    IF matched = <<>> THEN 0 ELSE MatchPoints(Head(matched)) + SumPoints(Tail(matched))

ApplySkillOnlyPenalty(acc) ==
    LET penalized == [i \in 1..Len(acc.matched) |-> PenalizeMatch(acc.matched[i])]
    IN  [acc EXCEPT !.matched = penalized, !.total_earned = SumPoints(penalized)]

\* match_strength = total_earned / total_possible if total_possible > 0 else 0.0
MatchStrength(acc) ==
    IF acc.total_possible > 0
    THEN Fraction(acc.total_earned, acc.total_possible * CovOne)
    ELSE <<0, 1>>

\* a count that takes the partial entries too
RECURSIVE CountMatchedOrPartial(_, _)
CountMatchedOrPartial(matched, importance) ==
    IF matched = <<>> THEN 0
    ELSE (IF Head(matched).competency.importance = importance THEN 1 ELSE 0)
            + CountMatchedOrPartial(Tail(matched), importance)

\* the entries of `matched` of the given importance that are fully matched
RECURSIVE CountMatched(_, _)
CountMatched(matched, importance) ==
    IF matched = <<>> THEN 0
    ELSE (IF /\ Head(matched).status = "matched"
             /\ Head(matched).competency.importance = importance
          THEN 1 ELSE 0) + CountMatched(Tail(matched), importance)

\* '8/10': matched / total, as text
CoverageString(matched_count, total) ==
    ToString(matched_count) \o "/" \o ToString(total)

find_matching_paths(jd, graph) ==
    LET required == normalize_competencies(jd.required)
        optional == normalize_competencies(jd.optional)
        step2 == ScoreAll(ScoreAll(EmptyTotals, required, graph), optional, graph)
        step3 == ApplySkillOnlyPenalty(step2)
    IN  [matched |-> step3.matched,
         missing |-> step3.missing,
         total_possible |-> step3.total_possible,
         total_earned |-> step3.total_earned,
         match_strength |-> MatchStrength(step3),
         required_coverage |->
             CoverageString(CountMatched(step3.matched, "required"), Len(required)),
         optional_coverage |->
             CoverageString(CountMatched(step3.matched, "optional"), Len(optional))]

----------------------------------------------------------------------------
(* Scoring runs: the inputs and the one operation *)

MaxComps == 2

SeqsOfLen(S, k) == [1..k -> S]

\* The candidate's graph as the matcher sees it: node types, and whether the
\* node carries an embedding (build_candidate_graph embeds the skill nodes;
\* project and experience nodes appear as evidence in the scoring examples).
ProfileGraph ==
    << [type |-> "Skill", has_embedding |-> TRUE],
       [type |-> "Skill", has_embedding |-> TRUE],
       [type |-> "Skill", has_embedding |-> TRUE],
       [type |-> "Project", has_embedding |-> TRUE],
       [type |-> "Experience", has_embedding |-> TRUE],
       [type |-> "Skill", has_embedding |-> TRUE],
       [type |-> "Education", has_embedding |-> FALSE] >>

CandidateGraphs == {ProfileGraph}

\* cosine similarity of each node's embedding with the competency's, per node
RowNone         == <<20, 25, 10, 25, 0, 5, 90>>
RowSkillOnly    == <<95, 20, 20, 20, 20, 20, 0>>
RowProject      == <<30, 20, 20, 92, 60, 10, 0>>
RowPartialSkill == <<28, 20, 20, 20, 20, 27, 0>>
RowBoundary     == <<20, 20, 20, 35, 20, 20, 0>>
RowMany         == <<40, 41, 42, 30, 35, 43, 90>>

SimRows == {RowNone, RowSkillOnly, RowProject, RowPartialSkill, RowBoundary, RowMany}

\* names of the four categories: "ML", "k", "p", and one without a keyword
CompNames == {<<"M", "L">>, <<"k">>, <<"p">>, <<"x">>}

Entries(importance) == [name : CompNames, importance : {importance}, sims : SimRows]

GeneralEntry(importance, row) == [name |-> <<"x">>, importance |-> importance, sims |-> row]

\* 10 required (8 fully matched, 2 missing) and 7 optional (5 fully matched,
\* 2 missing) competencies, all of weight 0.8
ScenarioJob ==
    [required |-> [i \in 1..10 |-> GeneralEntry("required",
                                     IF i <= 8 THEN RowProject ELSE RowNone)],
     optional |-> [i \in 1..7 |-> GeneralEntry("optional",
                                     IF i <= 5 THEN RowProject ELSE RowNone)]]

\* numbers of required and of optional competencies of a job
JobSizes == {p \in (0..MaxComps) \X (0..MaxComps) : p[1] + p[2] <= MaxComps}

Jobs(size) ==
    {[required |-> r, optional |-> o] :
        r \in SeqsOfLen(Entries("required"), size[1]),
        o \in SeqsOfLen(Entries("optional"), size[2])}

NoResult == [status |-> "none"]

NoSkill == [name |-> "none"]

YearsUnused ==
    /\ skill_node = NoSkill
    /\ embedding_model = <<>>
    /\ score_log = <<>>

FeedbackUnused ==
    /\ profile_skill = NoSkill
    /\ map_similarity = 0
    /\ edge_weight = <<>>
    /\ feedback_log = <<>>
    /\ feedback_worker = <<>>

CacheUnused ==
    /\ profile_updated_at = <<>>
    /\ job_updated_at = <<>>
    /\ application_preview = <<>>
    /\ preview_request = <<>>

RunsUnused ==
    /\ embedding_available = TRUE
    /\ match_history = <<>>

NoGraph == [status |-> "none"]

GraphUnused ==
    /\ candidate_profile = NoSkill
    /\ knowledge_graph = NoGraph

StatusUnused ==
    /\ application_status = <<>>
    /\ application_read = NoResult

GenerationUnused == generation_request = <<>>

UsageUnused ==
    /\ llm_usage = <<>>
    /\ usage_worker = <<>>

ApiUnused == StatusUnused /\ GenerationUnused /\ UsageUnused

RouteUnused ==
    /\ auth_context = NoResult
    /\ location = ""
    /\ rendered = ""

PageUnused ==
    /\ applications_page = NoResult
    /\ feedback_requests = <<>>

BrowseUnused ==
    /\ browse_jobs = NoResult
    /\ modal_fetches = <<>>

StorageUnused ==
    /\ local_storage = <<>>
    /\ auth_call = NoResult

ResumePageUnused ==
    /\ generate_resume = NoResult
    /\ generate_requests = <<>>

UiUnused ==
    /\ RouteUnused
    /\ PageUnused
    /\ BrowseUnused
    /\ StorageUnused
    /\ ResumePageUnused

InitScoring ==
    /\ candidate_graph \in CandidateGraphs
    /\ \/ jd_competencies = ScenarioJob
       \/ \E size \in JobSizes : jd_competencies \in Jobs(size)
    /\ matching_result = NoResult
    /\ YearsUnused
    /\ FeedbackUnused
    /\ CacheUnused
    /\ RunsUnused
    /\ GraphUnused
    /\ ApiUnused
    /\ UiUnused

BuildAndScore ==
    /\ matching_result = NoResult
    /\ matching_result' = find_matching_paths(jd_competencies, candidate_graph)
    /\ UNCHANGED <<candidate_graph, jd_competencies>>
    /\ UNCHANGED OutsideScoring

NextScoring == BuildAndScore

SpecScoring == InitScoring /\ [][NextScoring]_vars

----------------------------------------------------------------------------
(* Claims about a scoring run *)

Scored == matching_result # NoResult

JobSize == Len(jd_competencies.required) + Len(jd_competencies.optional)

AllCompetencies ==
    normalize_competencies(jd_competencies.required)
        \o normalize_competencies(jd_competencies.optional)

\* every competency of the job has coverage 1.0: none is missing and every
\* entry of `matched` carries a full coverage
EveryCompetencyCovered ==
    /\ matching_result.missing = <<>>
    /\ \A i \in 1..Len(matching_result.matched) :
          matching_result.matched[i].coverage = CovOne

\* C1: for a job with at least one competency, match_strength lies in [0,1]
\* and is 1.0 if and only if every competency of the job reaches coverage 1.0.
C1_StrengthOneIffAllCovered ==
    (Scored /\ JobSize > 0) =>
        /\ 0 <= matching_result.match_strength[1]
        /\ matching_result.match_strength[1] <= matching_result.match_strength[2]
        /\ (matching_result.match_strength = <<1, 1>>) <=> EveryCompetencyCovered

\* coverage before the penalty, from the similarity and the threshold
CoverageBeforePenalty(match) ==
    IF match.similarity >= match.competency.match_threshold
    THEN CovOne
    ELSE (match.similarity * CovOne) \div match.competency.match_threshold

\* the evidence the matcher retains for a competency (up to five items)
RetainedEvidence(comp) == find_evidence_matches(comp, candidate_graph)

\* C7: a matched or partial competency whose retained evidence is all of type
\* Skill has its coverage multiplied by 0.7 (a skill-only full match has 0.7);
\* with a Project or Experience node among the retained evidence the coverage
\* is not reduced.
C7_PenaltyIffSkillOnlyEvidence ==
    Scored =>
        \A i \in 1..Len(matching_result.matched) :
            LET match == matching_result.matched[i]
                retained == RetainedEvidence(match.competency)
            IN  IF \A k \in 1..Len(retained) : retained[k].node_type = "Skill"
                THEN match.coverage * 10 = CoverageBeforePenalty(match) * 7
                ELSE match.coverage = CoverageBeforePenalty(match)

RECURSIVE SumPossible(_)
SumPossible(comps) ==
    IF comps = <<>> THEN 0
    ELSE Head(comps).weight * (IF Head(comps).importance = "required" THEN 15 ELSE 10)
           + SumPossible(Tail(comps))

RECURSIVE SumEarned(_)
SumEarned(matched) ==
    IF matched = <<>> THEN 0
    ELSE Head(matched).competency.weight
           * (IF Head(matched).competency.importance = "required" THEN 15 ELSE 10)
           * Head(matched).coverage
           + SumEarned(Tail(matched))

\* C8: match_strength = points_earned / points_possible, every competency of
\* the job (the missing ones too) adding weight x importance to
\* points_possible and that amount x coverage to points_earned; the
\* 10 required + 7 optional scenario gives 13.6 / 17.6 = 17 / 22.
C8_StrengthCountsEveryCompetency ==
    Scored =>
        /\ matching_result.match_strength =
              IF JobSize = 0 THEN <<0, 1>>
              ELSE Fraction(SumEarned(matching_result.matched),
                            SumPossible(AllCompetencies) * CovOne)
        /\ (jd_competencies = ScenarioJob) => matching_result.match_strength = <<17, 22>>

----------------------------------------------------------------------------
(* A skill gaining years of experience between scoring runs *)

YearSpan == 2

Proficiencies == {"BEGINNER", "INTERMEDIATE", "ADVANCED", "EXPERT"}

\* f"{name} ({category} skill, {proficiency} level, {years} years)": the text
\* is carried as the tuple of the fields it is formatted from
compose_skill_text(node) ==
    <<node.name, node.category, node.proficiency, node.years_of_experience>>

SkillTexts(node) ==
    {compose_skill_text([node EXCEPT !.years_of_experience = y]) : y \in 0..YearSpan}

\* cosine similarity of embed_text(text) with the competency's embedding
SimLevels == {20, 30, 40}

SkillNodes ==
    [name : {"Python"}, category : {"TECHNICAL"}, proficiency : Proficiencies,
     years_of_experience : 0..YearSpan]

\* build_candidate_graph for the one skill: the node, embedded from its text
SkillGraph == << [type |-> "Skill", has_embedding |-> TRUE] >>

WithSims(jd, row) ==
    [required |-> [i \in 1..Len(jd.required) |-> [jd.required[i] EXCEPT !.sims = row]],
     optional |-> [i \in 1..Len(jd.optional) |-> [jd.optional[i] EXCEPT !.sims = row]]]

OneCompetencyJobs ==
    {[required |-> r, optional |-> <<>>] : r \in SeqsOfLen(Entries("required"), 1)}
    \cup {[required |-> <<>>, optional |-> o] : o \in SeqsOfLen(Entries("optional"), 1)}

InitYears ==
    /\ skill_node \in SkillNodes
    /\ embedding_model \in [SkillTexts(skill_node) -> SimLevels]
    /\ score_log = <<>>
    /\ candidate_graph = SkillGraph
    /\ jd_competencies \in {WithSims(jd, <<0>>) : jd \in OneCompetencyJobs}
    /\ matching_result = NoResult
    /\ FeedbackUnused
    /\ CacheUnused
    /\ RunsUnused
    /\ GraphUnused
    /\ ApiUnused
    /\ UiUnused

\* a scoring run on the profile as it is now
ScoreProfile ==
    /\ IF score_log = <<>> THEN TRUE
       ELSE score_log[Len(score_log)].years # skill_node.years_of_experience
    /\ LET text == compose_skill_text(skill_node)
           jd == WithSims(jd_competencies, <<embedding_model[text]>>)
           result == find_matching_paths(jd, SkillGraph)
       IN  /\ candidate_graph' = SkillGraph
           /\ jd_competencies' = jd
           /\ matching_result' = result
           /\ score_log' = Append(score_log,
                                  [years |-> skill_node.years_of_experience,
                                   match_strength |-> result.match_strength])
    /\ UNCHANGED <<skill_node, embedding_model>>
    /\ UNCHANGED OutsideYears

\* the candidate edits the skill: one more year of experience
GainExperience ==
    /\ skill_node.years_of_experience < YearSpan
    /\ skill_node' = [skill_node EXCEPT !.years_of_experience = @ + 1]
    /\ UNCHANGED <<embedding_model, score_log, scoreVars>>
    /\ UNCHANGED OutsideYears

NextYears == ScoreProfile \/ GainExperience

SpecYears == InitYears /\ [][NextYears]_vars

\* C10: with everything else equal, a scoring run made with more years of
\* experience for the skill never gives the skill a smaller contribution to
\* match_strength than a run made with fewer years.
C10_MoreYearsNeverLowerContribution ==
    \A i \in 1..Len(score_log) : \A j \in 1..Len(score_log) :
        score_log[i].years <= score_log[j].years =>
            score_log[i].match_strength[1] * score_log[j].match_strength[2]
                <= score_log[j].match_strength[1] * score_log[i].match_strength[2]

----------------------------------------------------------------------------
(* Capability graph: edge weights and their adaptation from feedback *)

MaxYears == 6
MaxFeedback == 3

RECURSIVE Pow10(_)
Pow10(n) == IF n = 0 THEN 1 ELSE 10 * Pow10(n - 1)

\* Weight 1.0.  A weight is an integer number of 1/WeightOne parts; the unit
\* is fine enough for the initial weights (hundredths) and for MaxFeedback
\* successive adjustments by a factor in tenths to be exact.
WeightOne == 100 * Pow10(MaxFeedback)

base_weight == 5

\* in tenths
proficiency_multiplier(level) ==
    CASE level = "BEGINNER" -> 3
      [] level = "INTERMEDIATE" -> 6
      [] level = "ADVANCED" -> 8
      [] level = "EXPERT" -> 10

experience_multiplier_uncapped(years) == years

\* min(1.0, years_of_experience / 5.0), in fifths
experience_multiplier(years) == Min(5, years)

\* skill_weight = base_weight * proficiency_multiplier * experience_multiplier
skill_weight(skill) ==
    (base_weight * proficiency_multiplier(skill.proficiency)
        * experience_multiplier(skill.years_of_experience) * WeightOne) \div (10 * 10 * 5)

\* The graph of the weight update example: Candidate -> Project1 -> Python ->
\* Python Development, and a second skill of the project that maps to no
\* competency of the job.
HasProject   == <<"Candidate", "Project1">>
Demonstrates == <<"Project1", "Python">>
UsesDocker   == <<"Project1", "Docker">>
MapsTo       == <<"Python", "PythonDevelopment">>

JobCompetencies == {"PythonDevelopment"}

DockerSkill == [proficiency |-> "INTERMEDIATE", years_of_experience |-> 2]

\* graph.add_edge(skill_node, competency_node, weight=similarity) if similarity > 0.5
SemanticMatchThreshold == 50

build_candidate_graph(skill, similarity) ==
    LET profile_edges ==
            (HasProject :> (WeightOne \div 2))
            @@ (Demonstrates :> skill_weight(skill))
            @@ (UsesDocker :> skill_weight(DockerSkill))
    IN  IF similarity > SemanticMatchThreshold
        THEN profile_edges @@ (MapsTo :> (similarity * WeightOne) \div 100)
        ELSE profile_edges

\* nodes reachable from `from` along the edges, by at most n more steps
RECURSIVE Reach(_, _, _)
Reach(edges, from, n) ==
    IF n = 0 THEN from
    ELSE Reach(edges, from \cup {e[2] : e \in {d \in edges : d[1] \in from}}, n - 1)

\* "Find edges involved in matched competencies": the edges on a path from
\* the Candidate root to a competency of the job
EvidencePathEdges(edges) ==
    {e \in edges :
        /\ e[1] \in Reach(edges, {"Candidate"}, Cardinality(edges))
        /\ Reach(edges, {e[2]}, Cardinality(edges)) \cap JobCompetencies # {}}

Decisions == {"SHORTLIST", "INTERVIEW", "HIRE", "REJECT"}

\* in tenths: +10%, +20%, +30%, -10%
FeedbackFactorUnchanged(decision) == 10

\* a table whose REJECT adds the 10% instead of taking it off
FeedbackFactorRejectRaises(decision) ==
    CASE decision = "SHORTLIST" -> 11
      [] decision = "INTERVIEW" -> 12
      [] decision = "HIRE" -> 13
      [] decision = "REJECT" -> 11

FeedbackFactor(decision) ==
    CASE decision = "SHORTLIST" -> 11
      [] decision = "INTERVIEW" -> 12
      [] decision = "HIRE" -> 13
      [] decision = "REJECT" -> 9

AdjustWeightUncapped(weight, decision) == (weight * FeedbackFactor(decision)) \div 10

\* "0.8 -> 1.0 (+30%, capped at 1.0)"
AdjustWeight(weight, decision) ==
    Min(WeightOne, (weight * FeedbackFactor(decision)) \div 10)

\* an update that adjusts every edge of the graph
update_all_weights(weights, decision) ==
    [e \in DOMAIN weights |-> AdjustWeight(weights[e], decision)]

update_weights_from_feedback(weights, decision) ==
    LET involved == EvidencePathEdges(DOMAIN weights)
    IN  [e \in DOMAIN weights |->
            IF e \in involved THEN AdjustWeight(weights[e], decision) ELSE weights[e]]

ProfileSkills == [proficiency : Proficiencies, years_of_experience : 0..MaxYears]

MapSimilarities == {40, 70, 80}

InitFeedback ==
    /\ profile_skill \in ProfileSkills
    /\ map_similarity \in MapSimilarities
    /\ edge_weight = <<>>
    /\ feedback_log = <<>>
    /\ feedback_worker = <<>>
    /\ candidate_graph = <<>>
    /\ jd_competencies = [required |-> <<>>, optional |-> <<>>]
    /\ matching_result = NoResult
    /\ YearsUnused
    /\ CacheUnused
    /\ RunsUnused
    /\ GraphUnused
    /\ ApiUnused
    /\ UiUnused

\* a request builds the graph afresh from the profile
BuildCandidateGraph ==
    /\ edge_weight' = build_candidate_graph(profile_skill, map_similarity)
    /\ feedback_log' = <<>>
    /\ UNCHANGED <<profile_skill, map_similarity, feedback_worker>>
    /\ UNCHANGED OutsideFeedback

\* one feedback event, handled from start to end
ApplyFeedback(decision) ==
    /\ edge_weight # <<>>
    /\ Len(feedback_log) < MaxFeedback
    /\ edge_weight' = update_weights_from_feedback(edge_weight, decision)
    /\ feedback_log' = Append(feedback_log,
                              [decision |-> decision,
                               before |-> edge_weight,
                               after |-> edge_weight'])
    /\ UNCHANGED <<profile_skill, map_similarity, feedback_worker>>
    /\ UNCHANGED OutsideFeedback

NextFeedback ==
    \/ BuildCandidateGraph
    \/ \E decision \in Decisions : ApplyFeedback(decision)

SpecFeedback == InitFeedback /\ [][NextFeedback]_vars

----------------------------------------------------------------------------
(* Feedback events submitted concurrently *)

NumFeedbackWorkers == 2

FeedbackWorkers == 1..NumFeedbackWorkers

RaceProfiles ==
    {[proficiency |-> "EXPERT", years_of_experience |-> 6],
     [proficiency |-> "ADVANCED", years_of_experience |-> 2]}

IdleWorker == [pc |-> "idle", decision |-> "none", loaded |-> <<>>]

InitFeedbackRace ==
    /\ profile_skill \in RaceProfiles
    /\ map_similarity \in {s \in MapSimilarities : s > SemanticMatchThreshold}
    /\ edge_weight = <<>>
    /\ feedback_log = <<>>
    /\ feedback_worker = [w \in FeedbackWorkers |-> IdleWorker]
    /\ candidate_graph = <<>>
    /\ jd_competencies = [required |-> <<>>, optional |-> <<>>]
    /\ matching_result = NoResult
    /\ YearsUnused
    /\ CacheUnused
    /\ RunsUnused
    /\ GraphUnused
    /\ ApiUnused
    /\ UiUnused

BuildGraphOnce ==
    /\ edge_weight = <<>>
    /\ edge_weight' = build_candidate_graph(profile_skill, map_similarity)
    /\ UNCHANGED <<profile_skill, map_similarity, feedback_log, feedback_worker>>
    /\ UNCHANGED OutsideFeedback

\* POST /api/recruiter/feedback/ arrives: the order of receipt is recorded
ReceiveFeedback(w, decision) ==
    /\ edge_weight # <<>>
    /\ feedback_worker[w].pc = "idle"
    /\ feedback_worker' = [feedback_worker EXCEPT ![w].pc = "received",
                                                  ![w].decision = decision]
    /\ feedback_log' = Append(feedback_log, [worker |-> w, decision |-> decision])
    /\ UNCHANGED <<profile_skill, map_similarity, edge_weight>>
    /\ UNCHANGED OutsideFeedback

\* 1. Load candidate graph
LoadGraph(w) ==
    /\ feedback_worker[w].pc = "received"
    /\ feedback_worker' = [feedback_worker EXCEPT ![w].pc = "loaded",
                                                  ![w].loaded = edge_weight]
    /\ UNCHANGED <<profile_skill, map_similarity, edge_weight, feedback_log>>
    /\ UNCHANGED OutsideFeedback

\* 2-4. Find the edges, adjust them, write the weights back
StoreWeights(w) ==
    /\ feedback_worker[w].pc = "loaded"
    /\ edge_weight' = update_weights_from_feedback(feedback_worker[w].loaded,
                                                   feedback_worker[w].decision)
    /\ feedback_worker' = [feedback_worker EXCEPT ![w].pc = "done"]
    /\ UNCHANGED <<profile_skill, map_similarity, feedback_log>>
    /\ UNCHANGED OutsideFeedback

NextFeedbackRace ==
    \/ BuildGraphOnce
    \/ \E w \in FeedbackWorkers : \E decision \in Decisions : ReceiveFeedback(w, decision)
    \/ \E w \in FeedbackWorkers : LoadGraph(w)
    \/ \E w \in FeedbackWorkers : StoreWeights(w)

SpecFeedbackRace == InitFeedbackRace /\ [][NextFeedbackRace]_vars

RECURSIVE AppliedInOrder(_, _)
AppliedInOrder(weights, events) ==
    IF events = <<>> THEN weights
    ELSE AppliedInOrder(update_weights_from_feedback(weights, Head(events).decision),
                        Tail(events))

\* C6: once two concurrent feedback events for the same candidate and edges
\* are both handled, the stored weights are those obtained by applying the
\* events one after the other in the order of receipt; no adjustment is lost.
C6_AppliedInReceiptOrder ==
    (\A w \in DOMAIN feedback_worker : feedback_worker[w].pc = "done") =>
        edge_weight = AppliedInOrder(build_candidate_graph(profile_skill, map_similarity),
                                     feedback_log)

----------------------------------------------------------------------------
(* Claims about edge weights *)

\* C2: after any sequence of graph builds and feedback events every edge
\* weight is within [0,1]; an adjustment that would leave the range is
\* clamped.
C2_WeightsStayInRange ==
    \A e \in DOMAIN edge_weight : 0 <= edge_weight[e] /\ edge_weight[e] <= WeightOne

\* a HIRE on an edge at 0.8 has just been clamped to 1.0
C2_ClampedWitness ==
    /\ feedback_log # <<>>
    /\ feedback_log[Len(feedback_log)].decision = "HIRE"
    /\ MapsTo \in DOMAIN edge_weight
    /\ feedback_log[Len(feedback_log)].before[MapsTo] * 10 = WeightOne * 8
    /\ edge_weight[MapsTo] = WeightOne

\* two HIRE events one after the other, at positions i and i + 1 of the log
HiredTwiceAt(i) ==
    /\ i + 1 <= Len(feedback_log)
    /\ feedback_log[i].decision = "HIRE"
    /\ feedback_log[i + 1].decision = "HIRE"

PathEdges == {HasProject, Demonstrates, MapsTo} \cap DOMAIN edge_weight

Matched == MapsTo \in DOMAIN edge_weight

ClaimedMultiplier(level) ==
    IF level = "BEGINNER" THEN 3
    ELSE IF level = "INTERMEDIATE" THEN 6
    ELSE IF level = "ADVANCED" THEN 8
    ELSE 10

FreshlyBuilt == edge_weight # <<>> /\ feedback_log = <<>>

\* C9: the initial weight of a skill's edge is
\* 0.5 x proficiency_multiplier x min(1, years / 5), which is m x min(5, years)
\* hundredths for the multiplier m in tenths; it lies in [0,1] and is 0 when
\* years_of_experience is 0.
C9_InitialSkillWeight ==
    FreshlyBuilt =>
        LET w == edge_weight[Demonstrates]
            years == profile_skill.years_of_experience
        IN  /\ w * 100 = WeightOne * ClaimedMultiplier(profile_skill.proficiency)
                            * (IF years < 5 THEN years ELSE 5)
            /\ 0 <= w /\ w <= WeightOne
            /\ (years = 0) => w = 0

\* an EXPERT skill with more than five years: the experience multiplier is
\* capped and the weight is 0.5
C9_Witness ==
    /\ FreshlyBuilt
    /\ profile_skill.proficiency = "EXPERT"
    /\ profile_skill.years_of_experience > 5
    /\ edge_weight[Demonstrates] * 2 = WeightOne

----------------------------------------------------------------------------
(* The application preview cache: _get_or_compute_preview *)

MaxVersion == 2

NumPreviewWorkers == 2

CandidateIds == {"c1"}

JobIds == {"j1"}

PreviewWorkers == 1..NumPreviewWorkers

NoPreview == [status |-> "none"]

\* ApplicationPreview.objects.filter(candidate=profile, job=job).first()
RowsOf(rows, candidate, job) ==
    {row \in rows : row.candidate = candidate /\ row.job = job}

FirstPreview(rows, candidate, job) ==
    IF RowsOf(rows, candidate, job) = {} THEN NoPreview
    ELSE CHOOSE row \in RowsOf(rows, candidate, job) : TRUE

\* the condition that ignores the job's timestamp
NeedsRefreshIgnoringJob(force_refresh, preview, candidate_timestamp, job_timestamp) ==
    \/ force_refresh
    \/ preview = NoPreview
    \/ IF preview = NoPreview THEN TRUE
       ELSE preview.candidate_updated_at < candidate_timestamp

NeedsRefresh(force_refresh, preview, candidate_timestamp, job_timestamp) ==
    \/ force_refresh
    \/ preview = NoPreview
    \/ IF preview = NoPreview THEN TRUE
       ELSE \/ preview.candidate_updated_at < candidate_timestamp
            \/ preview.job_updated_at < job_timestamp

\* What the profile and the job say at a given updated_at: every save changes
\* the text, hence the similarities the matcher finds.
PreviewRows == <<RowNone, RowPartialSkill, RowSkillOnly, RowProject>>

build_job_context(job, candidate_timestamp, job_timestamp) ==
    LET row == PreviewRows[((candidate_timestamp + job_timestamp)
                               % Len(PreviewRows)) + 1]
    IN  [required |-> <<GeneralEntry("required", row)>>, optional |-> <<>>]

\* the `defaults` of update_or_create
ComputePreview(candidate, job, candidate_timestamp, job_timestamp) ==
    LET jd_data == build_job_context(job, candidate_timestamp, job_timestamp)
        result == find_matching_paths(jd_data, ProfileGraph)
    IN  [candidate |-> candidate,
         job |-> job,
         match_strength |-> result.match_strength,
         candidate_updated_at |-> candidate_timestamp,
         job_updated_at |-> job_timestamp]

\* a plain create: the row is added whatever the table holds
create_preview(rows, preview) == rows \cup {preview}

\* unique_together = ('candidate', 'job'): the row of the pair is updated if
\* there is one and created otherwise
update_or_create(rows, preview) ==
    (rows \ RowsOf(rows, preview.candidate, preview.job)) \cup {preview}

IdleRequest ==
    [pc |-> "idle", candidate |-> "none", job |-> "none", force_refresh |-> FALSE,
     candidate_timestamp |-> 0, job_timestamp |-> 0,
     preview |-> NoPreview, matcher_calls |-> 0]

InitCache ==
    /\ profile_updated_at = [c \in CandidateIds |-> 1]
    /\ job_updated_at = [j \in JobIds |-> 1]
    /\ application_preview = {}
    /\ preview_request = [r \in PreviewWorkers |-> IdleRequest]
    /\ candidate_graph = <<>>
    /\ jd_competencies = [required |-> <<>>, optional |-> <<>>]
    /\ matching_result = NoResult
    /\ YearsUnused
    /\ FeedbackUnused
    /\ RunsUnused
    /\ GraphUnused
    /\ ApiUnused
    /\ UiUnused

\* the candidate saves the profile: updated_at moves on
SaveProfile(candidate) ==
    /\ profile_updated_at[candidate] < MaxVersion
    /\ profile_updated_at' = [profile_updated_at EXCEPT ![candidate] = @ + 1]
    /\ UNCHANGED <<job_updated_at, application_preview, preview_request,
                   OutsideCache>>

\* the recruiter saves the job: updated_at moves on
SaveJob(job) ==
    /\ job_updated_at[job] < MaxVersion
    /\ job_updated_at' = [job_updated_at EXCEPT ![job] = @ + 1]
    /\ UNCHANGED <<profile_updated_at, application_preview, preview_request,
                   OutsideCache>>

\* The call reads the two timestamps and the cached row and decides; with a
\* valid row it has its result.  A call goes to the first idle worker.  The
\* timestamps are locals of the needs_refresh branch: a call that has its
\* result keeps the result only.
GetPreview(r, candidate, job, force_refresh) ==
    /\ preview_request[r].pc = "idle"
    /\ \A q \in DOMAIN preview_request : q < r => preview_request[q].pc # "idle"
    /\ LET candidate_timestamp == profile_updated_at[candidate]
           job_timestamp == job_updated_at[job]
           preview == FirstPreview(application_preview, candidate, job)
           needs_refresh == NeedsRefresh(force_refresh, preview,
                                         candidate_timestamp, job_timestamp)
       IN  preview_request' = [preview_request EXCEPT ![r] =
               [pc |-> IF needs_refresh THEN "recompute" ELSE "done",
                candidate |-> candidate,
                job |-> job,
                force_refresh |-> force_refresh,
                candidate_timestamp |-> IF needs_refresh THEN candidate_timestamp ELSE 0,
                job_timestamp |-> IF needs_refresh THEN job_timestamp ELSE 0,
                preview |-> IF needs_refresh THEN NoPreview ELSE preview,
                matcher_calls |-> 0]]
    /\ UNCHANGED <<profile_updated_at, job_updated_at, application_preview,
                   OutsideCache>>

\* the needs_refresh branch: rebuild, match, and write the row with the
\* timestamps read at the start of the call
RecomputePreview(r) ==
    /\ preview_request[r].pc = "recompute"
    /\ LET q == preview_request[r]
           preview == ComputePreview(q.candidate, q.job,
                                     q.candidate_timestamp, q.job_timestamp)
       IN  /\ application_preview' = update_or_create(application_preview, preview)
           /\ preview_request' = [preview_request EXCEPT ![r] =
                  [q EXCEPT !.pc = "done", !.preview = preview,
                            !.candidate_timestamp = 0, !.job_timestamp = 0,
                            !.matcher_calls = @ + 1]]
    /\ UNCHANGED <<profile_updated_at, job_updated_at, OutsideCache>>

\* return preview: the worker is free for the next call
ReturnPreview(r) ==
    /\ preview_request[r].pc = "done"
    /\ preview_request' = [preview_request EXCEPT ![r] = IdleRequest]
    /\ UNCHANGED <<profile_updated_at, job_updated_at, application_preview,
                   OutsideCache>>

NextCache ==
    \/ \E candidate \in CandidateIds : SaveProfile(candidate)
    \/ \E job \in JobIds : SaveJob(job)
    \/ \E r \in PreviewWorkers, candidate \in CandidateIds, job \in JobIds,
          force_refresh \in BOOLEAN : GetPreview(r, candidate, job, force_refresh)
    \/ \E r \in PreviewWorkers : RecomputePreview(r)
    \/ \E r \in PreviewWorkers : ReturnPreview(r)

SpecCache == InitCache /\ [][NextCache]_vars

----------------------------------------------------------------------------
(* Claims on the preview cache *)

\* the row the call finds is valid: it exists, the call is not forced, and
\* both of its timestamps are at least the current ones
CacheValid(call) ==
    LET cached == FirstPreview(application_preview, call.candidate, call.job)
    IN  /\ cached # NoPreview
        /\ ~call.force_refresh
        /\ IF cached = NoPreview THEN FALSE
           ELSE /\ cached.candidate_updated_at >= profile_updated_at[call.candidate]
                /\ cached.job_updated_at >= job_updated_at[call.job]

\* C3: a call returns the cached row, with no graph rebuild and no matcher
\* run, exactly when a row of the pair exists, force_refresh is false and
\* both cached timestamps are at least the current ones; in every other case
\* the call recomputes from the current timestamps, runs the matcher once
\* and returns what it computed, which is also the row it leaves in the cache.
C3_CachedExactlyWhenValid ==
    [][\A r \in PreviewWorkers :
          LET before == preview_request[r]
              after == preview_request'[r]
          IN  /\ (before.pc = "idle" /\ after.pc # "idle") =>
                    IF CacheValid(after)
                    THEN /\ after.pc = "done"
                         /\ after.matcher_calls = 0
                         /\ after.preview = FirstPreview(application_preview,
                                                after.candidate, after.job)
                         /\ application_preview' = application_preview
                    ELSE /\ after.pc = "recompute"
                         /\ after.matcher_calls = 0
                         /\ after.candidate_timestamp = profile_updated_at[after.candidate]
                         /\ after.job_timestamp = job_updated_at[after.job]
              /\ (before.pc = "recompute" /\ after.pc # "recompute") =>
                    /\ after.pc = "done"
                    /\ after.matcher_calls = 1
                    /\ after.preview = ComputePreview(before.candidate, before.job,
                                          before.candidate_timestamp, before.job_timestamp)
                    /\ FirstPreview(application_preview', before.candidate, before.job)
                          = after.preview]_vars

\* one call was served from the cache, and an unforced call of the same pair
\* recomputed at a later timestamp of the job, with a different result
C3_Witness ==
    \E r1 \in PreviewWorkers, r2 \in PreviewWorkers :
       LET hit == preview_request[r1]
           refresh == preview_request[r2]
       IN  /\ hit.pc = "done" /\ hit.matcher_calls = 0
           /\ refresh.pc = "done" /\ refresh.matcher_calls = 1
           /\ ~refresh.force_refresh
           /\ hit.candidate = refresh.candidate /\ hit.job = refresh.job
           /\ refresh.preview.job_updated_at > hit.preview.job_updated_at
           /\ refresh.preview.match_strength # hit.preview.match_strength

\* C4: the timestamps stored for a pair never decrease: a write computed
\* from older timestamps does not replace a row written from newer ones
C4_StoredTokensNeverDecrease ==
    [][\A candidate \in CandidateIds, job \in JobIds :
          LET old == FirstPreview(application_preview, candidate, job)
              new == FirstPreview(application_preview', candidate, job)
          IN  IF old = NoPreview \/ new = NoPreview THEN TRUE
              ELSE /\ new.candidate_updated_at >= old.candidate_updated_at
                   /\ new.job_updated_at >= old.job_updated_at]_vars

----------------------------------------------------------------------------
(* Repeated runs of build-and-score, malformed entries, backend failures *)

MaxRuns == 2

\* entry['name'] and competency.get('description', '')
HasName(entry) == "name" \in DOMAIN entry

HasDescription(entry) == "description" \in DOMAIN entry

WellNamed(entries) == \A i \in 1..Len(entries) : HasName(entries[i])

\* normalize_competencies updates the entries in place, in order, until
\* entry['name'] raises KeyError
NormalizeInPlace(entries) ==
    [i \in 1..Len(entries) |->
        IF \A j \in 1..i : HasName(entries[j])
        THEN NormalizeEntry(entries[i])
        ELSE entries[i]]

EmbeddingError == [status |-> "error", error |-> "embedding backend unavailable"]

KeyError == [status |-> "error", error |-> "KeyError: 'name'"]

\* kg = KnowledgeGraph(); kg.build_candidate_graph(profile);
\* kg.find_matching_paths(jd_data): the model is loaded and the skill nodes
\* embedded first, then the entries are normalised, then scored
build_and_score(jd, graph, available) ==
    IF ~available THEN EmbeddingError
    ELSE IF ~(WellNamed(jd.required) /\ WellNamed(jd.optional)) THEN KeyError
    ELSE find_matching_paths(jd, graph)

\* the job's entries as the call leaves them
JobAfterCall(jd, available) ==
    IF ~available THEN jd
    ELSE IF ~WellNamed(jd.required)
         THEN [jd EXCEPT !.required = NormalizeInPlace(@)]
         ELSE [required |-> NormalizeInPlace(jd.required),
               optional |-> NormalizeInPlace(jd.optional)]

DescribedEntries(importance) ==
    [name : CompNames, importance : {importance}, description : {"text"},
     sims : SimRows]

NamelessEntry(importance) ==
    [importance |-> importance, description |-> "text", sims |-> RowProject]

UndescribedEntry(importance) ==
    [name |-> <<"x">>, importance |-> importance, sims |-> RowProject]

MalformedEntries(importance) ==
    {NamelessEntry(importance), UndescribedEntry(importance)}

InsertAt(s, e, p) == SubSeq(s, 1, p - 1) \o <<e>> \o SubSeq(s, p, Len(s))

WellFormedJobs ==
    {[required |-> <<r>>, optional |-> <<o>>] :
        r \in DescribedEntries("required"), o \in DescribedEntries("optional")}
    \cup {[required |-> r, optional |-> <<>>] :
             r \in SeqsOfLen(DescribedEntries("required"), 2)}

\* a job the parser returned with one entry that lacks a field
MalformedJobs(jd) ==
    {[jd EXCEPT !.required = InsertAt(@, e, p)] :
        e \in MalformedEntries("required"), p \in 1..(Len(jd.required) + 1)}
    \cup {[jd EXCEPT !.optional = InsertAt(@, e, p)] :
        e \in MalformedEntries("optional"), p \in 1..(Len(jd.optional) + 1)}

\* what is stored when the runs start: the weights of a built graph and the
\* cached preview of a pair
StoredWeights ==
    build_candidate_graph([proficiency |-> "ADVANCED", years_of_experience |-> 2], 70)

StoredPreviews == {ComputePreview("c1", "j1", 1, 1)}

InitRuns ==
    /\ candidate_graph = ProfileGraph
    /\ \E jd \in WellFormedJobs : jd_competencies \in {jd} \cup MalformedJobs(jd)
    /\ matching_result = NoResult
    /\ embedding_available \in BOOLEAN
    /\ match_history = <<>>
    /\ YearsUnused
    /\ profile_skill = [proficiency |-> "ADVANCED", years_of_experience |-> 2]
    /\ map_similarity = 70
    /\ edge_weight = StoredWeights
    /\ feedback_log = <<>>
    /\ feedback_worker = <<>>
    /\ profile_updated_at = [c \in CandidateIds |-> 1]
    /\ job_updated_at = [j \in JobIds |-> 1]
    /\ application_preview = StoredPreviews
    /\ preview_request = [r \in PreviewWorkers |-> IdleRequest]
    /\ GraphUnused
    /\ ApiUnused
    /\ UiUnused

\* one call of build-and-score on the profile and the job as they are
CallBuildAndScore ==
    /\ Len(match_history) < MaxRuns
    /\ LET result == build_and_score(jd_competencies, candidate_graph,
                                     embedding_available)
       IN  /\ matching_result' = result
           /\ match_history' = Append(match_history, result)
    /\ jd_competencies' = JobAfterCall(jd_competencies, embedding_available)
    /\ UNCHANGED <<candidate_graph, embedding_available, yearsVars, feedbackVars,
                   cacheVars, graphVars, apiVars, uiVars>>

NextRuns == CallBuildAndScore

SpecRuns == InitRuns /\ [][NextRuns]_vars

----------------------------------------------------------------------------
(* Claims on repeated runs *)

IsMatchResult(result) == "matched" \in DOMAIN result

C12_UnavailableBackendScoresZero ==
    (match_history # <<>> /\ ~embedding_available) =>
        /\ IsMatchResult(matching_result)
        /\ matching_result.matched = <<>>
        /\ Len(matching_result.missing) = JobSize
        /\ matching_result.match_strength = <<0, 1>>
        /\ Len(candidate_graph) = Len(ProfileGraph)

Malformed(entry) == ~HasName(entry) \/ ~HasDescription(entry)

WellFormedOnly(entries) == SelectSeq(entries, LAMBDA e : ~Malformed(e))

HasMalformedEntry ==
    \E i \in 1..JobSize :
        Malformed((jd_competencies.required \o jd_competencies.optional)[i])

\* C13: a run on a job with an entry that lacks a name or a description
\* returns a MatchResult, and it is the result of the job without that entry
C13_MalformedEntrySkipped ==
    (match_history # <<>> /\ embedding_available /\ HasMalformedEntry) =>
        /\ IsMatchResult(matching_result)
        /\ matching_result =
              find_matching_paths(
                  [required |-> WellFormedOnly(jd_competencies.required),
                   optional |-> WellFormedOnly(jd_competencies.optional)],
                  candidate_graph)

\* the required competencies whose best similarity reaches their threshold
FullyMatchedRequired ==
    LET required == normalize_competencies(jd_competencies.required)
    IN  {i \in 1..Len(required) :
            LET evidence == find_evidence_matches(required[i], candidate_graph)
            IN  /\ evidence # <<>>
                /\ MaxSimilarity(evidence) >= required[i].match_threshold}

\* C17: required_coverage is 'm/n', n the number of required competencies of
\* the job and m the number of those whose best similarity reaches the
\* threshold; a partial competency is not counted, and 0 <= m <= n
C17_RequiredCoverageCountsMatched ==
    (match_history # <<>> /\ IsMatchResult(matching_result)) =>
        LET n == Len(jd_competencies.required)
            m == Cardinality(FullyMatchedRequired)
        IN  /\ 0 <= m /\ m <= n
            /\ matching_result.required_coverage = ToString(m) \o "/" \o ToString(n)

\* one required competency is matched and the other is partial: '1/2'
C17_Witness ==
    /\ match_history # <<>>
    /\ IsMatchResult(matching_result)
    /\ matching_result.required_coverage = "1/2"
    /\ \E i \in 1..Len(matching_result.matched) :
          /\ matching_result.matched[i].status = "partial"
          /\ matching_result.matched[i].competency.importance = "required"

----------------------------------------------------------------------------
(* The preview cache with several pairs *)

PairJobIds == {"j1", "j2"}

\* two calls at a time
PairWorkers == {1, 2}

InitCachePairs ==
    /\ profile_updated_at = [c \in CandidateIds |-> 1]
    /\ job_updated_at = [j \in PairJobIds |-> 1]
    /\ application_preview = {}
    /\ preview_request = [r \in PairWorkers |-> IdleRequest]
    /\ candidate_graph = <<>>
    /\ jd_competencies = [required |-> <<>>, optional |-> <<>>]
    /\ matching_result = NoResult
    /\ YearsUnused
    /\ FeedbackUnused
    /\ RunsUnused
    /\ GraphUnused
    /\ ApiUnused
    /\ UiUnused

NextCachePairs ==
    \/ \E candidate \in CandidateIds : SaveProfile(candidate)
    \/ \E job \in PairJobIds : SaveJob(job)
    \/ \E r \in PairWorkers, candidate \in CandidateIds, job \in PairJobIds,
          force_refresh \in BOOLEAN : GetPreview(r, candidate, job, force_refresh)
    \/ \E r \in PairWorkers : RecomputePreview(r)
    \/ \E r \in PairWorkers : ReturnPreview(r)

SpecCachePairs == InitCachePairs /\ [][NextCachePairs]_vars

\* C14: whatever calls were made, the table holds at most one row per
\* (candidate, job); a refresh replaces the row of its pair and leaves the
\* rows of every other pair as they were
C14_OneRowPerPair ==
    [][/\ \A candidate \in CandidateIds, job \in PairJobIds :
             Cardinality(RowsOf(application_preview', candidate, job)) <= 1
       /\ \A r \in PairWorkers :
             LET before == preview_request[r]
                 after == preview_request'[r]
             IN  (before.pc = "recompute" /\ after.pc = "done") =>
                    /\ RowsOf(application_preview', before.candidate, before.job)
                          = {after.preview}
                    /\ \A candidate \in CandidateIds, job \in PairJobIds :
                          (<<candidate, job>> # <<before.candidate, before.job>>) =>
                             RowsOf(application_preview', candidate, job)
                                = RowsOf(application_preview, candidate, job)
       /\ (application_preview' # application_preview) =>
             \E r \in PairWorkers : /\ preview_request[r].pc = "recompute"
                                    /\ preview_request'[r].pc = "done"]_vars

\* both pairs have a row, and the row of one pair has been replaced: a call
\* served from the cache holds the earlier row, a later call of the same pair
\* recomputed, and the table holds the later row only
C14_Witness ==
    /\ \A job \in PairJobIds : RowsOf(application_preview, "c1", job) # {}
    /\ \E r1 \in PairWorkers, r2 \in PairWorkers :
          LET hit == preview_request[r1]
              refresh == preview_request[r2]
          IN  /\ hit.pc = "done" /\ hit.matcher_calls = 0
              /\ refresh.pc = "done" /\ refresh.matcher_calls = 1
              /\ hit.candidate = refresh.candidate /\ hit.job = refresh.job
              /\ hit.preview # refresh.preview
              /\ RowsOf(application_preview, hit.candidate, hit.job)
                    = {refresh.preview}

----------------------------------------------------------------------------
(* Claims on graph rebuilds after feedback *)

\* C15: a graph built after feedback events carries, on every edge of the
\* evidence path that received feedback, the adjusted weight and not the
\* weight of the initial formula
C15_AdjustedWeightsSurviveRebuild ==
    [][(feedback_log # <<>> /\ feedback_log' = <<>>) =>
          \A e \in PathEdges : edge_weight'[e] = edge_weight[e]]_vars

----------------------------------------------------------------------------
(* Construction of the knowledge graph from a candidate profile *)

ScoringUnused ==
    /\ candidate_graph = <<>>
    /\ jd_competencies = [required |-> <<>>, optional |-> <<>>]
    /\ matching_result = NoResult

SkillNames == {"Python", "Django"}
ToolNames == {"Docker"}

\* a node is <<type, name>>; the root
CandidateNode == <<"Candidate", "candidate">>

\* the profiles: the skills the candidate lists, at most one project with the
\* listed skills it demonstrates and the tools it uses, at most one
\* experience with the listed skills it demonstrates, and at most one entry
\* of education, publications and awards
ProjectsOf(skills) ==
    {{}} \cup {{[title |-> "Platform", skills |-> d, tools |-> t]} :
                 d \in SUBSET skills, t \in SUBSET ToolNames}

ExperiencesOf(skills) ==
    {{}} \cup {{[title |-> "Developer", skills |-> d]} : d \in SUBSET skills}

CandidateProfiles ==
    UNION {[skills : {skills},
            projects : ProjectsOf(skills),
            experiences : ExperiencesOf(skills),
            education : SUBSET {"BSc"},
            publications : SUBSET {"Paper"},
            awards : SUBSET {"Prize"}] : skills \in SUBSET SkillNames}

\* Graph Nodes: the Candidate root and a node of each profile entry; a Tool
\* node for each tool a project refers to
GraphNodes(profile) ==
    {CandidateNode}
    \cup {<<"Project", p.title>> : p \in profile.projects}
    \cup {<<"Skill", s>> : s \in profile.skills}
    \cup {<<"Tool", t>> : t \in UNION {p.tools : p \in profile.projects}}
    \cup {<<"Experience", x.title>> : x \in profile.experiences}
    \cup {<<"Education", e>> : e \in profile.education}
    \cup {<<"Publication", e>> : e \in profile.publications}
    \cup {<<"Award", e>> : e \in profile.awards}

\* Graph Edges of the candidate's side, <<from, to, kind>>
GraphEdges(profile) ==
    {<<CandidateNode, <<"Project", p.title>>, "HAS_PROJECT">> : p \in profile.projects}
    \cup UNION {{<<(<<"Project", p.title>>), <<"Skill", s>>, "DEMONSTRATES">> :
                    s \in p.skills} : p \in profile.projects}
    \cup UNION {{<<(<<"Project", p.title>>), <<"Tool", t>>, "USES_TOOL">> :
                    t \in p.tools} : p \in profile.projects}
    \cup {<<CandidateNode, <<"Experience", x.title>>, "HAS_EXPERIENCE">> :
             x \in profile.experiences}
    \cup UNION {{<<(<<"Experience", x.title>>), <<"Skill", s>>, "DEMONSTRATES_SKILL">> :
                    s \in x.skills} : x \in profile.experiences}
    \cup {<<CandidateNode, <<"Education", e>>, "HAS_EDUCATION">> : e \in profile.education}
    \cup {<<CandidateNode, <<"Publication", e>>, "HAS_PUBLICATION">> :
             e \in profile.publications}
    \cup {<<CandidateNode, <<"Award", e>>, "HAS_AWARD">> : e \in profile.awards}

build_knowledge_graph(profile) ==
    [nodes |-> GraphNodes(profile), edges |-> GraphEdges(profile)]

InitGraph ==
    /\ candidate_profile \in CandidateProfiles
    /\ knowledge_graph = NoGraph
    /\ ScoringUnused
    /\ YearsUnused
    /\ FeedbackUnused
    /\ CacheUnused
    /\ RunsUnused
    /\ ApiUnused
    /\ UiUnused

\* the graph of the profile is built
BuildKnowledgeGraph ==
    /\ knowledge_graph = NoGraph
    /\ knowledge_graph' = build_knowledge_graph(candidate_profile)
    /\ UNCHANGED <<candidate_profile, scoreVars, yearsVars, feedbackVars,
                   cacheVars, runVars, apiVars, uiVars>>

NextGraph == BuildKnowledgeGraph

SpecGraph == InitGraph /\ [][NextGraph]_vars

\* C16: a built graph has exactly one Candidate node, and every node of it
\* is reachable from that node along directed edges, a skill that no project
\* or experience demonstrates included
C16_AllNodesReachableFromCandidate ==
    (knowledge_graph # NoGraph) =>
        /\ Cardinality({n \in knowledge_graph.nodes : n[1] = "Candidate"}) = 1
        /\ knowledge_graph.nodes
              \subseteq Reach(knowledge_graph.edges, {CandidateNode},
                              Cardinality(knowledge_graph.edges))

----------------------------------------------------------------------------
(* Applications and the status a recruiter's feedback gives them *)

ApplicationIds == {1, 2}

ApplicationStatuses ==
    {"PENDING", "SHORTLISTED", "REJECTED", "INTERVIEWED", "HIRED"}

\* the status an action gives the application
StatusAfter(action) ==
    CASE action = "SHORTLIST" -> "SHORTLISTED"
      [] action = "INTERVIEW" -> "INTERVIEWED"
      [] action = "HIRE" -> "HIRED"
      [] action = "REJECT" -> "REJECTED"

\* a save that writes the status to every application
update_every_status(statuses, application, status) ==
    [a \in DOMAIN statuses |-> status]

\* application.status = status; application.save()
update_status(statuses, application, status) ==
    [a \in DOMAIN statuses |-> IF a = application THEN status ELSE statuses[a]]

InitStatus ==
    /\ application_status = <<>>
    /\ application_read = NoResult
    /\ profile_skill = [proficiency |-> "ADVANCED", years_of_experience |-> 2]
    /\ map_similarity = 70
    /\ edge_weight = StoredWeights
    /\ feedback_log = <<>>
    /\ feedback_worker = <<>>
    /\ ScoringUnused
    /\ YearsUnused
    /\ CacheUnused
    /\ RunsUnused
    /\ GraphUnused
    /\ GenerationUnused
    /\ UsageUnused
    /\ UiUnused

OutsideStatus == <<scoreVars, yearsVars, cacheVars, runVars, graphVars,
                   generationVars, usageVars,
    uiVars>>

\* Application.objects.create(..., status='PENDING')
CreateApplication(application) ==
    /\ application \notin DOMAIN application_status
    /\ application_status' = (application :> "PENDING") @@ application_status
    /\ UNCHANGED <<application_read, feedbackVars>>
    /\ UNCHANGED OutsideStatus

\* POST /api/recruiter/feedback/: the application's status and the weights
\* of the graph are updated
SubmitFeedback(application, action) ==
    /\ application \in DOMAIN application_status
    /\ Len(feedback_log) < MaxFeedback
    /\ application_status' =
          update_status(application_status, application, StatusAfter(action))
    /\ edge_weight' = update_weights_from_feedback(edge_weight, action)
    /\ feedback_log' = Append(feedback_log,
                              [application |-> application,
                               decision |-> action,
                               before |-> edge_weight,
                               after |-> edge_weight'])
    /\ UNCHANGED <<application_read, profile_skill, map_similarity,
                   feedback_worker>>
    /\ UNCHANGED OutsideStatus

\* GET /api/recruiter/applications/<id>/
GetApplication(application) ==
    /\ application \in DOMAIN application_status
    /\ application_read' = [id |-> application,
                            status |-> application_status[application]]
    /\ UNCHANGED <<application_status, feedbackVars>>
    /\ UNCHANGED OutsideStatus

NextStatus ==
    \/ \E application \in ApplicationIds : CreateApplication(application)
    \/ \E application \in ApplicationIds, action \in Decisions :
          SubmitFeedback(application, action)
    \/ \E application \in ApplicationIds : GetApplication(application)

SpecStatus == InitStatus /\ [][NextStatus]_vars

----------------------------------------------------------------------------
(* Resume generation: the retry loop around the whole pipeline *)

MAX_RETRIES == 10

GenerationRequests == {1, 2}

RECURSIVE Pow2(_)
Pow2(n) == IF n = 0 THEN 1 ELSE 2 * Pow2(n - 1)

\* a request not yet posted; attempt is the loop variable of
\* `for attempt in range(self.MAX_RETRIES)`, slept the seconds of back-off
NoRequest == [pc |-> "idle", attempt |-> 0, slept |-> 0, response |-> NoResult]

InitGeneration ==
    /\ generation_request = [r \in GenerationRequests |-> NoRequest]
    /\ ScoringUnused
    /\ YearsUnused
    /\ FeedbackUnused
    /\ CacheUnused
    /\ RunsUnused
    /\ GraphUnused
    /\ StatusUnused
    /\ UsageUnused
    /\ UiUnused

OutsideGeneration == <<scoreVars, yearsVars, feedbackVars, cacheVars, runVars,
                       graphVars, statusVars, usageVars,
    uiVars>>

\* POST /api/resume/generate/: the loop is entered with attempt = 0
PostGenerate(r) ==
    /\ generation_request[r].pc = "idle"
    /\ generation_request' =
          [generation_request EXCEPT ![r] = [NoRequest EXCEPT !.pc = "try"]]
    /\ UNCHANGED OutsideGeneration

\* return self._generate_resume(request, attempt + 1): the pipeline ran
\* through and the response carries the attempt number
GenerateSucceeds(r) ==
    LET g == generation_request[r]
    IN  /\ g.pc = "try"
        /\ generation_request' =
              [generation_request EXCEPT ![r] =
                  [g EXCEPT !.pc = "done",
                            !.response = [status |-> 200,
                                          attempt |-> g.attempt + 1]]]
        /\ UNCHANGED OutsideGeneration

\* except Exception: before the last attempt, sleep 2 ** attempt and go on
\* with the next attempt; after the last one the loop ends and the error
\* response is returned
GenerateFails(r) ==
    LET g == generation_request[r]
    IN  /\ g.pc = "try"
        /\ generation_request' =
              [generation_request EXCEPT ![r] =
                  IF g.attempt < MAX_RETRIES - 1
                  THEN [g EXCEPT !.attempt = g.attempt + 1,
                                 !.slept = g.slept + Pow2(g.attempt)]
                  ELSE [g EXCEPT !.pc = "done",
                                 !.response = [status |-> 500,
                                               attempts |-> g.attempt + 1]]]
        /\ UNCHANGED OutsideGeneration

NextGeneration ==
    \/ \E r \in GenerationRequests : PostGenerate(r)
    \/ \E r \in GenerationRequests : GenerateSucceeds(r)
    \/ \E r \in GenerationRequests : GenerateFails(r)

SpecGeneration == InitGeneration /\ [][NextGeneration]_vars

\* C19: a generation request makes at most 3 attempts: an attempt under way
\* is the first, second or third, a success reports an attempt from 1 to 3,
\* and the error is returned when the third attempt has failed
C19_AtMostThreeAttempts ==
    \A r \in DOMAIN generation_request :
        LET g == generation_request[r]
        IN  /\ (g.pc = "try") => (g.attempt + 1 \in 1..3)
            /\ (g.pc = "done" /\ g.response.status = 200) =>
                  (g.response.attempt \in 1..3)
            /\ (g.pc = "done" /\ g.response.status = 500) =>
                  (g.response.attempts = 3)

----------------------------------------------------------------------------
(* LLM quota: usage slots claimed by concurrent workers *)

\* requests per day of the gemini models and of a model the table does not
\* list (20 in the deployment), and of gemma-3-27b-it (14,400 there), scaled
\* down
RequestsPerDay == 2
GemmaRequestsPerDay == 3

NumUsageWorkers == 2

UsageWorkers == 1..NumUsageWorkers

ModelNames == {"gemini-2.5-flash", "gemma-3-27b-it"}

model_limits ==
    ("gemini-2.5-flash" :> RequestsPerDay)
    @@ ("gemma-3-27b-it" :> GemmaRequestsPerDay)

\* self.model_limits.get(model_name, 20)
LimitOf(model_name) ==
    IF model_name \in DOMAIN model_limits THEN model_limits[model_name]
    ELSE RequestsPerDay

\* the row of unique_together (model_name, api_key_fingerprint, date); the
\* workers share one API key and the calls are of one day
UsageKey(model_name) == <<model_name, "fingerprint", "today">>

NoClaim == [pc |-> "idle"]

\* a query without select_for_update takes no lock
RowNeverLocked(workers, w, key) == FALSE

\* the row is locked by the transaction of another worker: a transaction
\* holds the lock from its select_for_update until it commits
RowLocked(workers, w, key) ==
    \E v \in DOMAIN workers \ {w} :
        /\ workers[v].pc \in {"locked", "increment"}
        /\ workers[v].key = key

InitUsage ==
    /\ llm_usage = <<>>
    /\ usage_worker = [w \in UsageWorkers |-> NoClaim]
    /\ ScoringUnused
    /\ YearsUnused
    /\ FeedbackUnused
    /\ CacheUnused
    /\ RunsUnused
    /\ GraphUnused
    /\ StatusUnused
    /\ GenerationUnused
    /\ UiUnused

OutsideUsage == <<scoreVars, yearsVars, feedbackVars, cacheVars, runVars,
                  graphVars, statusVars, generationVars,
    uiVars>>

\* _claim_usage_slot up to get_or_create: the limit is looked up, the
\* transaction begins, and the row is selected for update, created with
\* count 0 if there is none; the call waits while another transaction holds
\* the row
SelectForUpdate(w, model_name) ==
    LET key == UsageKey(model_name)
        rows == IF key \in DOMAIN llm_usage THEN llm_usage
                ELSE (key :> 0) @@ llm_usage
    IN  /\ usage_worker[w].pc = "idle"
        /\ ~RowLocked(usage_worker, w, key)
        /\ llm_usage' = rows
        /\ usage_worker' =
              [usage_worker EXCEPT ![w] =
                  [pc |-> "locked", key |-> key, limit |-> LimitOf(model_name),
                   count |-> rows[key]]]
        /\ UNCHANGED OutsideUsage

\* if usage.count >= limit: return False, and the transaction commits
CheckQuota(w) ==
    LET u == usage_worker[w]
    IN  /\ u.pc = "locked"
        /\ usage_worker' =
              [usage_worker EXCEPT ![w] =
                  IF u.count >= u.limit
                  THEN [pc |-> "done", key |-> u.key, claimed |-> FALSE]
                  ELSE [pc |-> "increment", key |-> u.key]]
        /\ UNCHANGED llm_usage
        /\ UNCHANGED OutsideUsage

\* update(count=F('count') + 1) on the stored row; return True, and the
\* transaction commits
IncrementCount(w) ==
    LET u == usage_worker[w]
    IN  /\ u.pc = "increment"
        /\ llm_usage' = [llm_usage EXCEPT ![u.key] = @ + 1]
        /\ usage_worker' =
              [usage_worker EXCEPT ![w] =
                  [pc |-> "done", key |-> u.key, claimed |-> TRUE]]
        /\ UNCHANGED OutsideUsage

\* the caller has the answer; the worker takes the next call
ReturnClaim(w) ==
    /\ usage_worker[w].pc = "done"
    /\ usage_worker' = [usage_worker EXCEPT ![w] = NoClaim]
    /\ UNCHANGED llm_usage
    /\ UNCHANGED OutsideUsage

NextUsage ==
    \/ \E w \in UsageWorkers, model_name \in ModelNames :
          SelectForUpdate(w, model_name)
    \/ \E w \in UsageWorkers : CheckQuota(w)
    \/ \E w \in UsageWorkers : IncrementCount(w)
    \/ \E w \in UsageWorkers : ReturnClaim(w)

SpecUsage == InitUsage /\ [][NextUsage]_vars

\* C20: the count of every row stays within the daily limit of its model;
\* a claim that succeeds found the count below the limit and raises it by
\* exactly one, a claim that fails found it at the limit and leaves every
\* count as it was, and no other step changes a count
C20_UsageWithinLimit ==
    [][/\ \A key \in DOMAIN llm_usage' : llm_usage'[key] <= LimitOf(key[1])
       /\ \A w \in UsageWorkers :
             (usage_worker[w].pc # "done" /\ usage_worker'[w].pc = "done") =>
                LET key == usage_worker'[w].key
                IN  IF usage_worker'[w].claimed
                    THEN /\ llm_usage[key] < LimitOf(key[1])
                         /\ llm_usage' = [llm_usage EXCEPT ![key] = @ + 1]
                    ELSE /\ llm_usage[key] >= LimitOf(key[1])
                         /\ llm_usage' = llm_usage
       /\ (\E key \in DOMAIN llm_usage : llm_usage'[key] # llm_usage[key]) =>
             \E w \in UsageWorkers : /\ usage_worker[w].pc # "done"
                                     /\ usage_worker'[w].pc = "done"
                                     /\ usage_worker'[w].claimed]_vars

\* two workers claimed the last slot of a model at the same time: one call
\* succeeded and the other, which waited for the row, failed with the count
\* at the limit
C20_Witness ==
    \E w1 \in UsageWorkers, w2 \in UsageWorkers :
        /\ usage_worker[w1].pc = "done" /\ usage_worker[w1].claimed
        /\ usage_worker[w2].pc = "done" /\ ~usage_worker[w2].claimed
        /\ usage_worker[w1].key = usage_worker[w2].key
        /\ llm_usage[usage_worker[w1].key] = LimitOf(usage_worker[w1].key[1])

----------------------------------------------------------------------------
(* Claims on the coverage and the evidence of one competency *)

\* the nodes of the graph that carry an embedding and are more similar to
\* the competency than the floor of 0.25
RetainedNodes(comp) ==
    {n \in 1..Len(candidate_graph) :
        candidate_graph[n].has_embedding /\ comp.sims[n] > 25}

\* the largest similarity among the retained nodes, 0 when there is none
BestRetained(comp) ==
    IF RetainedNodes(comp) = {} THEN 0
    ELSE CHOOSE b \in {comp.sims[n] : n \in RetainedNodes(comp)} :
            \A n \in RetainedNodes(comp) : comp.sims[n] <= b

MatchesOf(comp) ==
    {k \in 1..Len(matching_result.matched) :
        matching_result.matched[k].competency = comp}

\* C21: before the penalty, a competency whose best similarity reaches its
\* threshold is matched with coverage 1.0; one with retained evidence below
\* the threshold is partial with coverage best_similarity / match_threshold,
\* strictly between 0 and 1; one without retained evidence is missing, with
\* no coverage earned.  The coverage before the penalty is the stored
\* coverage divided by the stored penalty factor.  Every coverage is in [0,1].
C21_CoverageByBestSimilarity ==
    Scored =>
        /\ \A i \in 1..Len(AllCompetencies) :
              LET comp == AllCompetencies[i]
                  best == BestRetained(comp)
              IN  IF RetainedNodes(comp) = {}
                  THEN /\ \E k \in 1..Len(matching_result.missing) :
                             matching_result.missing[k] = comp
                       /\ MatchesOf(comp) = {}
                  ELSE /\ MatchesOf(comp) # {}
                       /\ \A k \in MatchesOf(comp) :
                             LET match == matching_result.matched[k]
                             IN  IF best >= comp.match_threshold
                                 THEN /\ match.status = "matched"
                                      /\ match.coverage * 10
                                            = CovOne * match.coverage_penalty
                                 ELSE /\ match.status = "partial"
                                      /\ match.coverage * 10 * comp.match_threshold
                                            = best * CovOne * match.coverage_penalty
                                      /\ 0 < best /\ best < comp.match_threshold
        /\ \A k \in 1..Len(matching_result.matched) :
              /\ 0 <= matching_result.matched[k].coverage
              /\ matching_result.matched[k].coverage <= CovOne

\* a job with a partial competency and a missing one has been scored
C21_Witness ==
    /\ Scored
    /\ matching_result.missing # <<>>
    /\ \E k \in 1..Len(matching_result.matched) :
          /\ matching_result.matched[k].status = "partial"
          /\ matching_result.matched[k].coverage > 0
          /\ matching_result.matched[k].coverage < CovOne

\* C22: the evidence the matcher returns for a competency holds only nodes
\* that carry an embedding and are more similar than 0.25, each once, in
\* order of non-increasing similarity; it has at most 5 items, all retained
\* nodes when there are at most 5 and otherwise 5 that no retained node left
\* out exceeds; best_similarity is the similarity of the first item, and no
\* entry is made when the list is empty
C22_EvidenceIsTopFive ==
    Scored =>
        \A i \in 1..Len(AllCompetencies) :
            LET comp == AllCompetencies[i]
                evidence == RetainedEvidence(comp)
                ids == {evidence[k].node_id : k \in 1..Len(evidence)}
            IN  /\ ids \subseteq RetainedNodes(comp)
                /\ \A k \in 1..Len(evidence) :
                      evidence[k].similarity = comp.sims[evidence[k].node_id]
                /\ Cardinality(ids) = Len(evidence)
                /\ \A k \in 1..(Len(evidence) - 1) :
                      evidence[k].similarity >= evidence[k + 1].similarity
                /\ Len(evidence) = Min(5, Cardinality(RetainedNodes(comp)))
                /\ \A n \in RetainedNodes(comp) \ ids :
                      \A k \in 1..Len(evidence) :
                          comp.sims[n] <= evidence[k].similarity
                /\ IF evidence = <<>> THEN MatchesOf(comp) = {}
                   ELSE \A k \in MatchesOf(comp) :
                           matching_result.matched[k].similarity
                              = evidence[1].similarity

\* a competency with more than five retained nodes has been scored
C22_Witness ==
    /\ Scored
    /\ \E i \in 1..Len(AllCompetencies) :
          /\ Cardinality(RetainedNodes(AllCompetencies[i])) > 5
          /\ MatchesOf(AllCompetencies[i]) # {}

----------------------------------------------------------------------------
(* Competency classification on names of any spelling *)

MaxNameLen == 3

NameLetters == {"m", "l", "k", "p", "M", "L", "K", "P"}

Names(maxlen) == UNION {[1..k -> NameLetters] : k \in 0..maxlen}

\* the other requirements of the job: none, one of the ML/AI category, one
\* of the process category
OtherRequirements ==
    {<<>>,
     <<[name |-> <<"m", "l">>, importance |-> "required", sims |-> RowProject]>>,
     <<[name |-> <<"P">>, importance |-> "required", sims |-> RowNone]>>}

ParsedJobs(maxlen) ==
    {[required |-> <<[name |-> name, importance |-> "required",
                      sims |-> RowProject]>> \o others,
      optional |-> <<>>] : name \in Names(maxlen), others \in OtherRequirements}

InitNormalize ==
    /\ jd_competencies \in ParsedJobs(MaxNameLen)
    /\ candidate_graph = <<>>
    /\ matching_result = NoResult
    /\ YearsUnused
    /\ FeedbackUnused
    /\ CacheUnused
    /\ RunsUnused
    /\ GraphUnused
    /\ ApiUnused
    /\ UiUnused

\* normalize_competencies on the entries the parser returned
NormalizeJob ==
    /\ \A i \in 1..Len(jd_competencies.required) :
          "category" \notin DOMAIN jd_competencies.required[i]
    /\ jd_competencies' =
          [required |-> normalize_competencies(jd_competencies.required),
           optional |-> normalize_competencies(jd_competencies.optional)]
    /\ UNCHANGED <<candidate_graph, matching_result>>
    /\ UNCHANGED OutsideScoring

NextNormalize == NormalizeJob

SpecNormalize == InitNormalize /\ [][NextNormalize]_vars

\* the name holds the keyword in some spelling of upper and lower case
SpelledIn(name, keyword) ==
    \E i \in 0..(Len(name) - Len(keyword)) :
        \A j \in 1..Len(keyword) :
            \/ name[i + j] = keyword[j]
            \/ <<name[i + j], keyword[j]>>
                  \in {<<"M", "m">>, <<"L", "l">>, <<"K", "k">>, <<"P", "p">>}

\* C23: once normalised, every entry has the category of the first of
\* ML/AI, platform, process whose keyword its name holds in any letter case,
\* general when it holds none, with (weight, match_threshold) = (1.0, 0.35),
\* (0.9, 0.38), (0.5, 0.30), (0.8, 0.35); the other entries of the job play
\* no part
C23_CategoryFromNameOnly ==
    \A i \in 1..Len(jd_competencies.required) :
        LET entry == jd_competencies.required[i]
            triple == <<entry.category, entry.weight, entry.match_threshold>>
        IN  ("category" \in DOMAIN entry) =>
               triple =
                  IF SpelledIn(entry.name, <<"m", "l">>) THEN <<"ML_AI", 10, 35>>
                  ELSE IF SpelledIn(entry.name, <<"k">>) THEN <<"PLATFORM", 9, 38>>
                  ELSE IF SpelledIn(entry.name, <<"p">>) THEN <<"PROCESS", 5, 30>>
                  ELSE <<"GENERAL", 8, 35>>

\* a name in mixed case that holds an ML/AI and a platform keyword was
\* classified as ML/AI, in a job that has another requirement
C23_Witness ==
    /\ Len(jd_competencies.required) = 2
    /\ "category" \in DOMAIN jd_competencies.required[1]
    /\ jd_competencies.required[1].name = <<"K", "M", "l">>
    /\ jd_competencies.required[1].category = "ML_AI"

----------------------------------------------------------------------------
(* Claims on one feedback event *)

\* the edges of the evidence path of the example: Candidate -> Project1 ->
\* Python -> Python Development, there when the skill maps to the competency
AffectedEdges(weights) ==
    IF MapsTo \in DOMAIN weights THEN {HasProject, Demonstrates, MapsTo} ELSE {}

\* C24: one feedback event takes each weight w of an affected edge to
\* min(1, w x 1.10) for SHORTLIST, min(1, w x 1.20) for INTERVIEW,
\* min(1, w x 1.30) for HIRE and w x 0.90 for REJECT: a positive decision
\* never lowers a weight, REJECT never raises one, and 0 stays 0
C24_OneEventScalesAndClamps ==
    \A i \in 1..Len(feedback_log) :
        LET event == feedback_log[i]
            tenths == IF event.decision = "SHORTLIST" THEN 11
                      ELSE IF event.decision = "INTERVIEW" THEN 12
                      ELSE IF event.decision = "HIRE" THEN 13
                      ELSE 9
        IN  \A e \in AffectedEdges(event.before) :
                LET w == event.before[e]
                    v == event.after[e]
                IN  /\ IF w * tenths > WeightOne * 10
                       THEN v = WeightOne
                       ELSE v * 10 = w * tenths
                    /\ 0 <= v /\ v <= WeightOne
                    /\ (event.decision # "REJECT") => v >= w
                    /\ (event.decision = "REJECT") => v <= w
                    /\ (w = 0) => (v = 0)

\* a HIRE took the edge at 0.8 to the clamp, and a REJECT after it took the
\* weights down again
C24_Witness ==
    /\ Len(feedback_log) = 2
    /\ feedback_log[1].decision = "HIRE"
    /\ feedback_log[2].decision = "REJECT"
    /\ MapsTo \in DOMAIN edge_weight
    /\ feedback_log[1].before[MapsTo] * 13 > WeightOne * 10
    /\ feedback_log[1].after[MapsTo] = WeightOne
    /\ edge_weight[MapsTo] * 10 = WeightOne * 9
    /\ edge_weight[HasProject] < feedback_log[2].before[HasProject]

\* C25: a feedback event changes the weight of no edge off the evidence
\* path of a matched competency, changes nothing at all when no competency
\* is matched, and leaves the set of edges as it was
C25_OnlyEvidencePathChanges ==
    \A i \in 1..Len(feedback_log) :
        LET event == feedback_log[i]
        IN  /\ DOMAIN event.after = DOMAIN event.before
            /\ \A e \in DOMAIN event.before \ AffectedEdges(event.before) :
                  event.after[e] = event.before[e]
            /\ (AffectedEdges(event.before) = {}) => (event.after = event.before)

\* an event moved the weights of the evidence path and left the edge to the
\* tool, which is on no evidence path, at its weight
C25_Witness ==
    /\ feedback_log # <<>>
    /\ LET event == feedback_log[1]
       IN  /\ UsesDocker \in DOMAIN event.before
           /\ event.before[UsesDocker] > 0
           /\ event.after[UsesDocker] = event.before[UsesDocker]
           /\ \A e \in {HasProject, MapsTo} : event.after[e] # event.before[e]

----------------------------------------------------------------------------
(* Routing: App's routes and PrivateRoute *)

\* user is "none" for null, or the user's role
AuthStates ==
    [initializing : BOOLEAN, isAuthenticated : BOOLEAN,
     user : {"none", "CANDIDATE", "RECRUITER"}]

\* the routes wrapped in PrivateRoute: allowedRole and the page inside
ProtectedRoutes ==
    [path \in {"/candidate/dashboard", "/candidate/profile",
               "/candidate/generate-resume", "/candidate/jobs",
               "/recruiter/dashboard", "/recruiter/post-job",
               "/recruiter/edit-job/1", "/recruiter/applications/1"} |->
        CASE path = "/candidate/dashboard" ->
                [allowedRole |-> "CANDIDATE", children |-> "CandidateDashboard"]
          [] path = "/candidate/profile" ->
                [allowedRole |-> "CANDIDATE", children |-> "ProfilePage"]
          [] path = "/candidate/generate-resume" ->
                [allowedRole |-> "CANDIDATE", children |-> "GenerateResume"]
          [] path = "/candidate/jobs" ->
                [allowedRole |-> "CANDIDATE", children |-> "BrowseJobs"]
          [] path = "/recruiter/dashboard" ->
                [allowedRole |-> "RECRUITER", children |-> "RecruiterDashboard"]
          [] path = "/recruiter/post-job" ->
                [allowedRole |-> "RECRUITER", children |-> "PostJob"]
          [] path = "/recruiter/edit-job/1" ->
                [allowedRole |-> "RECRUITER", children |-> "EditJob"]
          [] path = "/recruiter/applications/1" ->
                [allowedRole |-> "RECRUITER", children |-> "ApplicationsPage"]]

Paths == DOMAIN ProtectedRoutes \cup {"/", "/login", "/register", "/nowhere"}

Navigate(to) == [kind |-> "navigate", target |-> to]

Page(name) == [kind |-> "page", target |-> name]

\* a route that checks authentication and not the role
PrivateRouteAnyRole(children, allowedRole, auth) ==
    IF auth.initializing THEN [kind |-> "loading", target |-> ""]
    ELSE IF ~auth.isAuthenticated THEN Navigate("/login")
    ELSE Page(children)

\* allowedRole is "none" when the property is not given
PrivateRoute(children, allowedRole, auth) ==
    IF auth.initializing THEN [kind |-> "loading", target |-> ""]
    ELSE IF ~auth.isAuthenticated THEN Navigate("/login")
    ELSE IF allowedRole # "none" /\ auth.user # allowedRole
    THEN Navigate(IF auth.user = "CANDIDATE" THEN "/candidate/dashboard"
                  ELSE IF auth.user = "RECRUITER" THEN "/recruiter/dashboard"
                  ELSE "/login")
    ELSE Page(children)

HomePage(auth) ==
    IF auth.user # "none"
    THEN Navigate(IF auth.user = "CANDIDATE" THEN "/candidate/dashboard"
                  ELSE "/recruiter/dashboard")
    ELSE Page("HomePage")

\* <Routes>: the element of the route that matches the path
Routes(path, auth) ==
    IF path = "/" THEN HomePage(auth)
    ELSE IF path = "/login" THEN Page("Login")
    ELSE IF path = "/register" THEN Page("Register")
    ELSE IF path \in DOMAIN ProtectedRoutes
    THEN PrivateRoute(ProtectedRoutes[path].children,
                      ProtectedRoutes[path].allowedRole, auth)
    ELSE Navigate("/")

StartingAuth == [initializing |-> TRUE, isAuthenticated |-> FALSE, user |-> "none"]

InitRoute ==
    /\ auth_context = StartingAuth
    /\ location = "/"
    /\ rendered = Routes("/", StartingAuth)
    /\ PageUnused
    /\ BrowseUnused
    /\ StorageUnused
    /\ ResumePageUnused
    /\ ScoringUnused
    /\ YearsUnused
    /\ FeedbackUnused
    /\ CacheUnused
    /\ RunsUnused
    /\ GraphUnused
    /\ ApiUnused

OutsideRoute == <<scoreVars, yearsVars, feedbackVars, cacheVars, runVars,
                  graphVars, apiVars, pageVars, browseVars, storageVars,
                  resumePageVars>>

\* the address bar or a link takes the router to a path
Visit(path) ==
    /\ location' = path
    /\ rendered' = Routes(path, auth_context)
    /\ UNCHANGED auth_context
    /\ UNCHANGED OutsideRoute

\* the context's value changes (initialisation ends, a login, a logout) and
\* the route is rendered again
AuthChanges(auth) ==
    /\ auth # auth_context
    /\ auth_context' = auth
    /\ rendered' = Routes(location, auth)
    /\ UNCHANGED location
    /\ UNCHANGED OutsideRoute

\* <Navigate to=... replace />
FollowNavigate ==
    /\ rendered.kind = "navigate"
    /\ location' = rendered.target
    /\ rendered' = Routes(rendered.target, auth_context)
    /\ UNCHANGED auth_context
    /\ UNCHANGED OutsideRoute

NextRoute ==
    \/ \E path \in Paths : Visit(path)
    \/ \E auth \in AuthStates : AuthChanges(auth)
    \/ FollowNavigate

SpecRoute == InitRoute /\ [][NextRoute]_vars

CandidatePages == {"CandidateDashboard", "ProfilePage", "GenerateResume", "BrowseJobs"}

RecruiterPages == {"RecruiterDashboard", "PostJob", "EditJob", "ApplicationsPage"}

\* C26: a protected page is rendered only when initialisation has finished
\* and an authenticated user of the page's role is there; at a protected
\* path, nothing but the loading text is produced while initialising, an
\* unauthenticated visitor is sent to /login and a user of the other role to
\* their own dashboard
C26_ProtectedPagesByRole ==
    /\ (rendered.kind = "page" /\ rendered.target \in CandidatePages) =>
          /\ ~auth_context.initializing
          /\ auth_context.isAuthenticated
          /\ auth_context.user = "CANDIDATE"
    /\ (rendered.kind = "page" /\ rendered.target \in RecruiterPages) =>
          /\ ~auth_context.initializing
          /\ auth_context.isAuthenticated
          /\ auth_context.user = "RECRUITER"
    /\ (location \in DOMAIN ProtectedRoutes) =>
          /\ auth_context.initializing => rendered.kind = "loading"
          /\ (~auth_context.initializing /\ ~auth_context.isAuthenticated) =>
                rendered = [kind |-> "navigate", target |-> "/login"]
          /\ (/\ ~auth_context.initializing
              /\ auth_context.isAuthenticated
              /\ auth_context.user = "RECRUITER"
              /\ location \in {"/candidate/dashboard", "/candidate/profile",
                               "/candidate/generate-resume", "/candidate/jobs"}) =>
                rendered = [kind |-> "navigate", target |-> "/recruiter/dashboard"]
          /\ (/\ ~auth_context.initializing
              /\ auth_context.isAuthenticated
              /\ auth_context.user = "CANDIDATE"
              /\ location \in {"/recruiter/dashboard", "/recruiter/post-job",
                               "/recruiter/edit-job/1",
                               "/recruiter/applications/1"}) =>
                rendered = [kind |-> "navigate", target |-> "/candidate/dashboard"]

\* an authenticated recruiter at a candidate path is being sent to the
\* recruiter's dashboard
C26_Witness ==
    /\ location = "/candidate/jobs"
    /\ auth_context = [initializing |-> FALSE, isAuthenticated |-> TRUE,
                       user |-> "RECRUITER"]
    /\ rendered = [kind |-> "navigate", target |-> "/recruiter/dashboard"]

----------------------------------------------------------------------------
(* The recruiter's applications page: the feedback form and its requests *)

MaxSubmits == 2

\* what the recruiter types as the reason, letter by letter
Reasons == {<<>>, <<" ">>, <<"o", "k">>, <<" ", "o", "k">>}

\* the actions the recruiter picks in the form
PageActions == {"SHORTLIST", "REJECT"}

\* reason.trim()
RECURSIVE TrimLeft(_)
TrimLeft(text) ==
    IF text # <<>> /\ Head(text) = " " THEN TrimLeft(Tail(text)) ELSE text

RECURSIVE TrimRight(_)
TrimRight(text) ==
    IF text # <<>> /\ text[Len(text)] = " "
    THEN TrimRight(SubSeq(text, 1, Len(text) - 1))
    ELSE text

Trim(text) == TrimRight(TrimLeft(text))

\* the component as mounted: loading, nothing listed, the form closed;
\* feedbackApp is 0 for null
MountedPage ==
    [loading |-> TRUE, applications |-> <<>>, showFeedback |-> FALSE,
     feedbackApp |-> 0, action |-> "SHORTLIST", reason |-> <<>>,
     submitting |-> FALSE]

InitPage ==
    /\ applications_page = MountedPage
    /\ feedback_requests = <<>>
    /\ application_status \in [ApplicationIds -> {"PENDING", "SHORTLISTED"}]
    /\ application_read = NoResult
    /\ GenerationUnused
    /\ UsageUnused
    /\ RouteUnused
    /\ BrowseUnused
    /\ StorageUnused
    /\ ResumePageUnused
    /\ ScoringUnused
    /\ YearsUnused
    /\ FeedbackUnused
    /\ CacheUnused
    /\ RunsUnused
    /\ GraphUnused

OutsidePage == <<scoreVars, yearsVars, feedbackVars, cacheVars, runVars,
                 graphVars, application_read, generationVars, usageVars,
                 routeVars, browseVars, storageVars, resumePageVars>>

\* loadApplications of the mount effect returns: the list is set or the
\* error is, and loading ends
MountLoadReturns(ok) ==
    /\ applications_page.loading
    /\ applications_page' =
          [applications_page EXCEPT
              !.loading = FALSE,
              !.applications = IF ok THEN application_status ELSE @]
    /\ UNCHANGED <<feedback_requests, application_status>>
    /\ UNCHANGED OutsidePage

\* the Submit Feedback button of a card, rendered when the page has loaded
\* for an application listed as PENDING: handleOpenFeedback
OpenFeedback(application) ==
    /\ ~applications_page.loading
    /\ ~applications_page.showFeedback
    /\ application \in DOMAIN applications_page.applications
    /\ applications_page.applications[application] = "PENDING"
    /\ applications_page' =
          [applications_page EXCEPT
              !.feedbackApp = application, !.showFeedback = TRUE,
              !.action = "SHORTLIST", !.reason = <<>>]
    /\ UNCHANGED <<feedback_requests, application_status>>
    /\ UNCHANGED OutsidePage

\* the form's fields
EditForm(action, reason) ==
    /\ applications_page.showFeedback
    /\ <<action, reason>> # <<applications_page.action, applications_page.reason>>
    /\ applications_page' =
          [applications_page EXCEPT !.action = action, !.reason = reason]
    /\ UNCHANGED <<feedback_requests, application_status>>
    /\ UNCHANGED OutsidePage

\* a click on the overlay at any time, or on Cancel, which is disabled while
\* submitting: setShowFeedback(false)
CloseFeedback ==
    /\ applications_page.showFeedback
    /\ applications_page' = [applications_page EXCEPT !.showFeedback = FALSE]
    /\ UNCHANGED <<feedback_requests, application_status>>
    /\ UNCHANGED OutsidePage

\* the Submit button, disabled while submitting: handleSubmitFeedback up to
\* its first await
ClickSubmit ==
    /\ applications_page.showFeedback
    /\ ~applications_page.submitting
    /\ Len(feedback_requests) < MaxSubmits
    /\ IF applications_page.feedbackApp = 0 \/ Trim(applications_page.reason) = <<>>
       THEN UNCHANGED <<applications_page, feedback_requests>>
       ELSE /\ applications_page' = [applications_page EXCEPT !.submitting = TRUE]
            /\ feedback_requests' =
                  Append(feedback_requests,
                         [application |-> applications_page.feedbackApp,
                          action |-> applications_page.action,
                          reason |-> applications_page.reason,
                          phase |-> "submit"])
    /\ UNCHANGED application_status
    /\ UNCHANGED OutsidePage

\* submitFeedback returns.  Fulfilled: the server has set the status, the
\* form is closed and loadApplications is awaited.  Rejected: the error is
\* set and submitting ends.
SubmitReturns(i, ok) ==
    LET request == feedback_requests[i]
    IN  /\ request.phase = "submit"
        /\ IF ok
           THEN /\ application_status' =
                      update_status(application_status, request.application,
                                    StatusAfter(request.action))
                /\ applications_page' =
                      [applications_page EXCEPT !.showFeedback = FALSE,
                                                !.feedbackApp = 0]
                /\ feedback_requests' =
                      [feedback_requests EXCEPT ![i].phase = "reload"]
           ELSE /\ applications_page' =
                      [applications_page EXCEPT !.submitting = FALSE]
                /\ feedback_requests' =
                      [feedback_requests EXCEPT ![i].phase = "failed"]
                /\ UNCHANGED application_status
        /\ UNCHANGED OutsidePage

\* the awaited loadApplications returns (it catches its own error), and the
\* finally block ends submitting
ReloadReturns(i, ok) ==
    /\ feedback_requests[i].phase = "reload"
    /\ applications_page' =
          [applications_page EXCEPT
              !.applications = IF ok THEN application_status ELSE @,
              !.loading = FALSE,
              !.submitting = FALSE]
    /\ feedback_requests' = [feedback_requests EXCEPT ![i].phase = "succeeded"]
    /\ UNCHANGED application_status
    /\ UNCHANGED OutsidePage

NextPage ==
    \/ \E ok \in BOOLEAN : MountLoadReturns(ok)
    \/ \E application \in ApplicationIds : OpenFeedback(application)
    \/ \E action \in PageActions, reason \in Reasons : EditForm(action, reason)
    \/ CloseFeedback
    \/ ClickSubmit
    \/ \E i \in DOMAIN feedback_requests, ok \in BOOLEAN : SubmitReturns(i, ok)
    \/ \E i \in DOMAIN feedback_requests, ok \in BOOLEAN : ReloadReturns(i, ok)

SpecPage == InitPage /\ [][NextPage]_vars

\* C27: a feedback request is issued only with a reason that is not blank,
\* for an application listed as PENDING, and when every earlier request for
\* that application has failed: never while one is in flight, never after
\* one has succeeded
C27_OneRequestPerDecision ==
    [][(Len(feedback_requests') = Len(feedback_requests) + 1) =>
          LET request == feedback_requests'[Len(feedback_requests')]
          IN  /\ Trim(request.reason) # <<>>
              /\ request.application \in DOMAIN applications_page.applications
              /\ applications_page.applications[request.application] = "PENDING"
              /\ \A i \in DOMAIN feedback_requests :
                    (feedback_requests[i].application = request.application) =>
                       feedback_requests[i].phase = "failed"]_vars

----------------------------------------------------------------------------
(* The candidate's job list: the apply modal and the data fetched for it *)

MaxModalRequests == 3

ListedJobs == {1, 2}

\* the component as mounted; applyModalJob is 0 for null
MountedBrowseJobs ==
    [applyModalJob |-> 0, resumeHistory |-> <<>>, matchPreview |-> NoResult,
     historyLoading |-> FALSE, previewLoading |-> FALSE,
     historyError |-> FALSE, previewError |-> FALSE,
     submittingApplication |-> FALSE]

\* the cleanup returned by the effect, kept by the mutant below
NoCleanup(fetches) == fetches

\* the cleanup returned by the effect: isMounted = false
Cleanup(fetches) ==
    [i \in DOMAIN fetches |-> [fetches[i] EXCEPT !.isMounted = FALSE]]

\* how getResumeHistory can settle for fetch i: rejected, or fulfilled with
\* .resumes missing, empty, or a list; its records carry the fetch they answer
HistoryResults(i) ==
    {[status |-> "rejected", has_resumes |-> FALSE, resumes |-> <<>>],
     [status |-> "fulfilled", has_resumes |-> FALSE, resumes |-> <<>>],
     [status |-> "fulfilled", has_resumes |-> TRUE, resumes |-> <<>>],
     [status |-> "fulfilled", has_resumes |-> TRUE,
      resumes |-> <<[fetch |-> i]>>]}

\* historyResult.value.resumes || []
ResumesOf(value) == IF value.has_resumes THEN value.resumes ELSE <<>>

\* what previewApplication({job_id}) answers fetch i
PreviewValue(i, job_id) == [fetch |-> i, job_id |-> job_id]

\* closeApplyModal's state changes
ClosedModal(state) ==
    [state EXCEPT !.applyModalJob = 0, !.resumeHistory = <<>>,
                  !.matchPreview = NoResult, !.historyError = FALSE,
                  !.previewError = FALSE, !.historyLoading = FALSE,
                  !.previewLoading = FALSE]

InitBrowse ==
    /\ browse_jobs = MountedBrowseJobs
    /\ modal_fetches = <<>>
    /\ RouteUnused
    /\ PageUnused
    /\ StorageUnused
    /\ ResumePageUnused
    /\ ApiUnused
    /\ ScoringUnused
    /\ YearsUnused
    /\ FeedbackUnused
    /\ CacheUnused
    /\ RunsUnused
    /\ GraphUnused

OutsideBrowse == <<scoreVars, yearsVars, feedbackVars, cacheVars, runVars,
                   graphVars, apiVars, routeVars, pageVars, storageVars,
                   resumePageVars>>

\* the Apply button of a job, disabled while a modal is open: openApplyModal,
\* then the effect on applyModalJob, which clears what the last modal left,
\* and starts fetchModalData
openApplyModal(job) ==
    /\ browse_jobs.applyModalJob = 0
    /\ Len(modal_fetches) < MaxModalRequests
    /\ browse_jobs' =
          [browse_jobs EXCEPT
              !.applyModalJob = job, !.resumeHistory = <<>>,
              !.matchPreview = NoResult, !.historyError = FALSE,
              !.previewError = FALSE, !.historyLoading = TRUE,
              !.previewLoading = TRUE]
    /\ modal_fetches' =
          Append(Cleanup(modal_fetches),
                 [kind |-> "modal", job |-> job, isMounted |-> TRUE,
                  settled |-> FALSE])
    /\ UNCHANGED OutsideBrowse

\* the overlay at any time, or Cancel: closeApplyModal, then the cleanup of
\* the effect, whose next run returns at once
closeApplyModal ==
    /\ browse_jobs.applyModalJob # 0
    /\ browse_jobs' = ClosedModal(browse_jobs)
    /\ modal_fetches' = Cleanup(modal_fetches)
    /\ UNCHANGED OutsideBrowse

\* Promise.allSettled returns in fetchModalData: nothing is set when the
\* effect has been cleaned up
fetchModalData(i, history, preview) ==
    LET fetch == modal_fetches[i]
    IN  /\ fetch.kind = "modal"
        /\ ~fetch.settled
        /\ modal_fetches' = [modal_fetches EXCEPT ![i].settled = TRUE]
        /\ IF ~fetch.isMounted
           THEN UNCHANGED browse_jobs
           ELSE browse_jobs' =
                   [browse_jobs EXCEPT
                       !.resumeHistory =
                           IF history.status = "fulfilled"
                           THEN ResumesOf(history) ELSE @,
                       !.historyError =
                           IF history.status = "fulfilled" THEN @ ELSE TRUE,
                       !.matchPreview =
                           IF preview = "rejected" THEN @
                           ELSE PreviewValue(i, fetch.job),
                       !.previewError =
                           IF preview = "rejected" THEN TRUE ELSE @,
                       !.historyLoading = FALSE,
                       !.previewLoading = FALSE]
        /\ UNCHANGED OutsideBrowse

\* Submit Application, disabled while submitting: handleSubmitApplication up
\* to its await
handleSubmitApplication ==
    /\ browse_jobs.applyModalJob # 0
    /\ ~browse_jobs.submittingApplication
    /\ Len(modal_fetches) < MaxModalRequests
    /\ browse_jobs' = [browse_jobs EXCEPT !.submittingApplication = TRUE]
    /\ modal_fetches' =
          Append(modal_fetches,
                 [kind |-> "apply", job |-> browse_jobs.applyModalJob,
                  isMounted |-> FALSE, settled |-> FALSE])
    /\ UNCHANGED OutsideBrowse

\* applyToJob returns: closeApplyModal when fulfilled, and submitting ends
ApplyReturns(i, ok) ==
    /\ modal_fetches[i].kind = "apply"
    /\ ~modal_fetches[i].settled
    /\ browse_jobs' =
          [(IF ok THEN ClosedModal(browse_jobs) ELSE browse_jobs)
              EXCEPT !.submittingApplication = FALSE]
    /\ modal_fetches' =
          [(IF ok THEN Cleanup(modal_fetches) ELSE modal_fetches)
              EXCEPT ![i].settled = TRUE]
    /\ UNCHANGED OutsideBrowse

NextBrowse ==
    \/ \E job \in ListedJobs : openApplyModal(job)
    \/ closeApplyModal
    \/ \E i \in DOMAIN modal_fetches :
          \E history \in HistoryResults(i),
             preview \in {"fulfilled", "rejected"} :
                fetchModalData(i, history, preview)
    \/ handleSubmitApplication
    \/ \E i \in DOMAIN modal_fetches, ok \in BOOLEAN : ApplyReturns(i, ok)

SpecBrowse == InitBrowse /\ [][NextBrowse]_vars

\* the fetches started by the effect
ModalFetches == {i \in DOMAIN modal_fetches : modal_fetches[i].kind = "modal"}

\* the fetch started when the modal now open was opened; 0 with no modal
CurrentFetch ==
    IF browse_jobs.applyModalJob = 0 THEN 0
    ELSE CHOOSE i \in ModalFetches : \A j \in ModalFetches : j <= i

\* C28: the match preview and the resume history in the component's state
\* are empty, or they are the answers to the requests started for the job
\* of the modal that is open now
C28_ModalDataOfOpenJob ==
    /\ \A k \in DOMAIN browse_jobs.resumeHistory :
          /\ browse_jobs.applyModalJob # 0
          /\ browse_jobs.resumeHistory[k].fetch = CurrentFetch
    /\ browse_jobs.matchPreview # NoResult =>
          /\ browse_jobs.applyModalJob # 0
          /\ browse_jobs.matchPreview.fetch = CurrentFetch
          /\ browse_jobs.matchPreview.job_id = browse_jobs.applyModalJob
          /\ modal_fetches[CurrentFetch].job = browse_jobs.applyModalJob

\* C28 happens: the answer to an earlier modal's requests has arrived and
\* was discarded, and the modal open now shows its own answers
C28_Witness ==
    /\ browse_jobs.applyModalJob # 0
    /\ browse_jobs.matchPreview # NoResult
    /\ browse_jobs.resumeHistory # <<>>
    /\ \E i \in ModalFetches :
          /\ i < CurrentFetch
          /\ modal_fetches[i].settled
          /\ modal_fetches[i].job # browse_jobs.applyModalJob

----------------------------------------------------------------------------
(* The auth service of the front end and the browser's local storage *)

MaxLogins == 2

\* response.data.user: missing, or a user
UndefinedUser == [defined |-> FALSE, role |-> "none"]

ResponseUsers ==
    {UndefinedUser, [defined |-> TRUE, role |-> "CANDIDATE"],
     [defined |-> TRUE, role |-> "RECRUITER"]}

\* JSON.stringify; setItem turns the undefined it gives for undefined into
\* the string "undefined"
JSONstringify(user) ==
    IF ~user.defined THEN "undefined"
    ELSE IF user.role = "CANDIDATE" THEN "{\"role\":\"CANDIDATE\"}"
    ELSE "{\"role\":\"RECRUITER\"}"

\* JSON.parse: the value, or a SyntaxError
JSONparse(text) ==
    IF text = "{\"role\":\"CANDIDATE\"}"
    THEN [kind |-> "user", user |-> [defined |-> TRUE, role |-> "CANDIDATE"]]
    ELSE IF text = "{\"role\":\"RECRUITER\"}"
    THEN [kind |-> "user", user |-> [defined |-> TRUE, role |-> "RECRUITER"]]
    ELSE [kind |-> "threw", user |-> UndefinedUser]

EmptyStorage == [key \in {} |-> ""]

setItem(storage, key, value) ==
    [k \in DOMAIN storage \cup {key} |-> IF k = key THEN value ELSE storage[k]]

removeItem(storage, key) == [k \in DOMAIN storage \ {key} |-> storage[k]]

\* getItem: null is found = FALSE
getItem(storage, key) ==
    IF key \in DOMAIN storage
    THEN [found |-> TRUE, value |-> storage[key]]
    ELSE [found |-> FALSE, value |-> ""]

\* a string or null as a condition
Truthy(item) == item.found /\ item.value # ""

\* the answers /auth/login/ can give: tokens missing, or an access token,
\* which may be empty, with a user or none
LoginResponses ==
    [has_tokens : {TRUE}, access : {"", "tokA", "tokB"}, user : ResponseUsers]
        \cup {[has_tokens |-> FALSE, access |-> "", user |-> UndefinedUser]}

\* logout, removing the token only
logout_token_only(storage) == removeItem(storage, "access_token")

\* what logout leaves in local storage
logout_storage(storage) ==
    removeItem(removeItem(storage, "access_token"), "user")

\* what login leaves in local storage when the post has answered; reading
\* .access of missing tokens throws
login_storage(storage, data) ==
    IF data.has_tokens /\ data.access # ""
    THEN setItem(setItem(storage, "access_token", data.access),
                 "user", JSONstringify(data.user))
    ELSE storage

NoAnswer == [kind |-> "none", user |-> UndefinedUser]

InitStorage ==
    /\ local_storage = EmptyStorage
    /\ auth_call = [pending |-> 0, started |-> 0, last |-> "none",
                    answer |-> NoAnswer, logged_out |-> FALSE]
    /\ RouteUnused
    /\ PageUnused
    /\ BrowseUnused
    /\ ResumePageUnused
    /\ ApiUnused
    /\ ScoringUnused
    /\ YearsUnused
    /\ FeedbackUnused
    /\ CacheUnused
    /\ RunsUnused
    /\ GraphUnused

OutsideStorage == <<scoreVars, yearsVars, feedbackVars, cacheVars, runVars,
                    graphVars, apiVars, routeVars, pageVars, browseVars,
                    resumePageVars>>

\* login up to its await
login ==
    /\ auth_call.started < MaxLogins
    /\ auth_call' = [auth_call EXCEPT !.pending = @ + 1, !.started = @ + 1,
                                      !.last = "login", !.answer = NoAnswer]
    /\ UNCHANGED local_storage
    /\ UNCHANGED OutsideStorage

\* the post of a login is rejected
LoginRejected ==
    /\ auth_call.pending > 0
    /\ auth_call' = [auth_call EXCEPT !.pending = @ - 1,
                                      !.last = "login_returns",
                                      !.answer = [NoAnswer EXCEPT !.kind = "threw"]]
    /\ UNCHANGED local_storage
    /\ UNCHANGED OutsideStorage

\* the post of a login answers
LoginAnswered(data) ==
    /\ auth_call.pending > 0
    /\ local_storage' = login_storage(local_storage, data)
    /\ auth_call' =
          [auth_call EXCEPT
              !.pending = @ - 1,
              !.last = "login_returns",
              !.answer = [NoAnswer EXCEPT
                             !.kind = IF data.has_tokens THEN "data" ELSE "threw"],
              !.logged_out = @ /\ local_storage' = local_storage]
    /\ UNCHANGED OutsideStorage

\* logout; the page it leaves for /login may or may not still receive the
\* answers of the logins in flight
logout(abandoned) ==
    /\ local_storage' = logout_storage(local_storage)
    /\ auth_call' = [auth_call EXCEPT
                        !.pending = IF abandoned THEN 0 ELSE @,
                        !.last = "logout", !.answer = NoAnswer,
                        !.logged_out = TRUE]
    /\ <<local_storage', auth_call'>> # <<local_storage, auth_call>>
    /\ UNCHANGED OutsideStorage

getCurrentUser ==
    LET userStr == getItem(local_storage, "user")
    IN  /\ auth_call' =
              [auth_call EXCEPT
                  !.last = "getCurrentUser",
                  !.answer = IF Truthy(userStr) THEN JSONparse(userStr.value)
                             ELSE [NoAnswer EXCEPT !.kind = "null"]]
        /\ UNCHANGED local_storage
        /\ UNCHANGED OutsideStorage

isAuthenticated ==
    /\ auth_call' =
          [auth_call EXCEPT
              !.last = "isAuthenticated",
              !.answer = [NoAnswer EXCEPT
                             !.kind = IF Truthy(getItem(local_storage, "access_token"))
                                      THEN "true" ELSE "false"]]
    /\ UNCHANGED local_storage
    /\ UNCHANGED OutsideStorage

NextStorage ==
    \/ login
    \/ LoginRejected
    \/ \E data \in LoginResponses : LoginAnswered(data)
    \/ \E abandoned \in BOOLEAN : logout(abandoned)
    \/ getCurrentUser
    \/ isAuthenticated

SpecStorage == InitStorage /\ [][NextStorage]_vars

\* 'user' is stored exactly when 'access_token' is, and after a logout,
\* until a login stores again, neither is
StoredTogether ==
    /\ ("user" \in DOMAIN local_storage) <=> ("access_token" \in DOMAIN local_storage)
    /\ auth_call.logged_out =>
          /\ DOMAIN local_storage = {}
          /\ auth_call.last = "isAuthenticated" => auth_call.answer.kind = "false"
          /\ auth_call.last = "getCurrentUser" => auth_call.answer.kind = "null"

\* a login whose answer has no access token stores nothing, one whose
\* answer has it stores that token and that user
StoresBothOrNeither ==
    \A data \in LoginResponses :
       LoginAnswered(data) =>
          IF data.has_tokens /\ data.access # ""
          THEN /\ local_storage'["access_token"] = data.access
               /\ local_storage'["user"] = JSONstringify(data.user)
          ELSE local_storage' = local_storage

\* C29: 'user' is in local storage exactly when 'access_token' is: a login
\* stores both when its answer carries an access token and neither
\* otherwise, a logout removes both, and after a logout isAuthenticated()
\* answers false and getCurrentUser() answers null
C29_UserExactlyWithToken == []StoredTogether /\ [][StoresBothOrNeither]_vars

\* C29 happens: logins have been made and have returned, a logout has
\* followed, and getCurrentUser() has been asked since
C29_Witness ==
    /\ auth_call.logged_out
    /\ auth_call.started >= 1
    /\ auth_call.pending = 0
    /\ auth_call.last = "getCurrentUser"
    /\ auth_call.answer.kind = "null"

----------------------------------------------------------------------------
(* The Generate Resume page: the label preview and the generation *)

MaxGenerations == 2

\* what the candidate pastes as the job description, letter by letter
JdTexts == {<<>>, <<" ">>, <<"j">>, <<"d">>}

\* the component as mounted; result is 0 for null
MountedGenerateResume ==
    [jdText |-> <<>>, loading |-> FALSE, result |-> 0, error |-> FALSE,
     labelPreview |-> NoResult]

InitResumePage ==
    /\ generate_resume = MountedGenerateResume
    /\ generate_requests = <<>>
    /\ RouteUnused
    /\ PageUnused
    /\ BrowseUnused
    /\ StorageUnused
    /\ ApiUnused
    /\ ScoringUnused
    /\ YearsUnused
    /\ FeedbackUnused
    /\ CacheUnused
    /\ RunsUnused
    /\ GraphUnused

OutsideResumePage == <<scoreVars, yearsVars, feedbackVars, cacheVars, runVars,
                       graphVars, apiVars, routeVars, pageVars, browseVars,
                       storageVars>>

\* the textarea
EditJdText(text) ==
    /\ text # generate_resume.jdText
    /\ generate_resume' = [generate_resume EXCEPT !.jdText = text]
    /\ UNCHANGED generate_requests
    /\ UNCHANGED OutsideResumePage

\* the Generate button, disabled while loading: handleGenerate up to its
\* await, with previewLabel and generateResume started
handleGenerate ==
    /\ ~generate_resume.loading
    /\ Len(generate_requests) < MaxGenerations
    /\ IF Trim(generate_resume.jdText) = <<>>
       THEN /\ generate_resume' = [generate_resume EXCEPT !.error = TRUE]
            /\ UNCHANGED generate_requests
       ELSE /\ generate_resume' =
                  [generate_resume EXCEPT !.loading = TRUE, !.error = FALSE,
                                          !.result = 0, !.labelPreview = NoResult]
            /\ generate_requests' =
                  Append(generate_requests,
                         [jd_text |-> generate_resume.jdText,
                          label |-> "pending", generate |-> "pending",
                          history |-> "none"])
    /\ UNCHANGED OutsideResumePage

\* previewLabel of generation i returns: then(setLabelPreview), or the catch
\* that only logs
previewLabelReturns(i, ok) ==
    /\ generate_requests[i].label = "pending"
    /\ generate_requests' =
          [generate_requests EXCEPT
              ![i].label = IF ok THEN "fulfilled" ELSE "rejected"]
    /\ generate_resume' =
          [generate_resume EXCEPT
              !.labelPreview =
                  IF ok THEN [generation |-> i,
                              jd_text |-> generate_requests[i].jd_text]
                  ELSE @]
    /\ UNCHANGED OutsideResumePage

\* generateResume of generation i returns: the result is set and loadHistory
\* awaited, or the error is set and loading ends
generateResumeReturns(i, ok) ==
    /\ generate_requests[i].generate = "pending"
    /\ generate_requests' =
          [generate_requests EXCEPT
              ![i].generate = IF ok THEN "fulfilled" ELSE "rejected",
              ![i].history = IF ok THEN "pending" ELSE @]
    /\ generate_resume' =
          IF ok THEN [generate_resume EXCEPT !.result = i]
          ELSE [generate_resume EXCEPT !.error = TRUE, !.loading = FALSE]
    /\ UNCHANGED OutsideResumePage

\* the awaited loadHistory returns (it catches its own error), and the
\* finally block ends loading
loadHistoryReturns(i) ==
    /\ generate_requests[i].history = "pending"
    /\ generate_requests' = [generate_requests EXCEPT ![i].history = "done"]
    /\ generate_resume' = [generate_resume EXCEPT !.loading = FALSE]
    /\ UNCHANGED OutsideResumePage

NextResumePage ==
    \/ \E text \in JdTexts : EditJdText(text)
    \/ handleGenerate
    \/ \E i \in DOMAIN generate_requests, ok \in BOOLEAN :
          previewLabelReturns(i, ok)
    \/ \E i \in DOMAIN generate_requests, ok \in BOOLEAN :
          generateResumeReturns(i, ok)
    \/ \E i \in DOMAIN generate_requests : loadHistoryReturns(i)

SpecResumePage == InitResumePage /\ [][NextResumePage]_vars

\* C30: the label preview in the component's state is the answer to the
\* generation started last, and loading is false when no generation has its
\* generateResume or the history reload after it still in flight
C30_LabelOfLatestGeneration ==
    /\ generate_resume.labelPreview # NoResult =>
          generate_resume.labelPreview.generation = Len(generate_requests)
    /\ (\A i \in DOMAIN generate_requests :
           /\ generate_requests[i].generate # "pending"
           /\ generate_requests[i].history # "pending")
          => ~generate_resume.loading

====
